---- MODULE Spec2Model ----
(***************************************************************************)
(* Incremental backup engine of apps/immich-backup/backup.py: the manifest *)
(* (SQLite index mirrored to the bucket as manifest.db), the producer /    *)
(* submit loop / worker pool pipeline, the per-file change detection and   *)
(* upload protocol, the checkpoint and shutdown flushes, and successive    *)
(* runs of the process against the same bucket.                            *)
(***************************************************************************)
EXTENDS Integers, Sequences, FiniteSets, TLC

(***************************************************************************)
(* Bounds of the model and constants of the program.                       *)
(***************************************************************************)
\* configured worker count (env UPLOAD_WORKERS) used in the model
UPLOAD_WORKERS == 2
\* configured outstanding-task ceiling (env MAX_PENDING_FUTURES) used in the model
MAX_PENDING_FUTURES == 2
\* number of successive processes (runs) against the same bucket
MaxRuns == 2
\* number of times the environment rewrites or deletes a source file
MaxWrites == 1
\* number of remote calls that raise to their caller (after their retries)
MaxFaults == 1
\* number of termination signals delivered
MaxSignals == 1
\* abrupt terminations (SIGKILL, power loss) in a behaviour
MaxKills == 1
\* files of the large tree, all new to the manifest
PipeFiles == 51
\* upserts applied to the files table
MaxUpserts == 3
\* the arguments of retry_with_backoff: max_retries, the delays, backoff_factor
MaxAttempts == 5
MaxDelay == 3
MaxFactor == 3
\* configured retention of database dumps (env DB_BACKUP_RETENTION) used in
\* the model
DB_BACKUP_RETENTION == 2
\* uploads made to the bucket
MaxClock == 6
\* characters of a relative path
MaxPathLen == 4
\* uploaded outcomes of a run
MaxUploaded == 51
\* skipped and error outcomes of a run
MaxOthers == 3
\* successive calls of _process_single_file for one file
MaxRecRuns == 4
\* rewrites of that file
MaxRecWrites == 2
\* rows of the index at the end of a run
MaxRows == 4

\* queue_size = UPLOAD_WORKERS * 10
QueueFactor == 10
\* new_files % 50: the local commit / remote checkpoint cadence
CommitEvery == 50
\* retry budgets of the remote calls
UploadRetries == 5
ClassRetries == 3
VerifyRetries == 3
ManifestRetries == 3

\* source files, by their path relative to LIBRARY_PATH (POSIX segments)
Files == {<<"f1">>, <<"f2">>, <<"d", "/", "f3">>}
Sizes == {10, 20}
Datas == {"a", "b"}

\* the bytes of a file: their length and what distinguishes them
Content == [size : Sizes, data : Datas]
NoFile == [size |-> 0, data |-> "none"]
NoEntry == [checksum |-> <<"none", 0, "none">>, size |-> 0, archived |-> 0]
Sentinel == <<"None">>
NoPath == <<>>

VARIABLES
    fs,             \* source tree: path -> content or NoFile
    gcsLib,         \* bucket objects library/<path>: path -> content or NoFile
    gcsManifest,    \* bucket object manifest.db: [exists, files]
    gcsCopies,      \* number of bucket objects manifest-<timestamp>.db
    conn,           \* files table as seen through the SQLite connection
    dbFile,         \* files table in the local database file (committed)
    task,           \* file -> the future of _process_single_file for it
    futures,        \* the submit loop's list of outstanding futures
    file_queue,     \* the bounded queue between producer and submit loop
    prod,           \* producer thread: [pc, listing, emitted]
    main,           \* main thread: [pc, cur, load, db_success, returned, w0],
                    \* and how its final save went: save_ok, saves, fallbacks
    total_files, new_files, skipped_files, errors, completed,
    run,            \* index of the current process
    env,            \* what the environment may still do
    hist,           \* one summary per ended process
    pipe,           \* the pipeline of one run over a large tree, by counts
    sqlite,         \* the files table as rows, under a sequence of upserts
    retry,          \* one call of retry_with_backoff
    bucket,         \* the objects of the bucket, by name and creation time
    lk,             \* the two locks around the manifest and who holds them
    loc,            \* one path and the object names derived from it
    agg,            \* the counters of _process_completed_future
    rec,            \* one file and its manifest entry over successive runs
    ex              \* the end of main: final save, cleanup, atexit flush

\* the variables of the file-by-file model
filevars == <<fs, gcsLib, gcsManifest, gcsCopies, conn, dbFile, task, futures,
              file_queue, prod, main, total_files, new_files, skipped_files,
              errors, completed, run, env, hist>>

\* the variables of the models of single functions
unitvars == <<sqlite, retry, bucket, lk, loc, agg, rec, ex>>

vars == <<filevars, pipe, unitvars>>

(***************************************************************************)
(* Paths, hashes and the files table.                                      *)
(***************************************************************************)
\* file_path_str = f"/{relative_path.as_posix()}"
FilePathStr(rel) == <<"/">> \o rel

RECURSIVE LStrip(_)
\* file_path.lstrip('/')
LStrip(s) == IF s # <<>> /\ Head(s) = "/" THEN LStrip(Tail(s)) ELSE s

\* f"library/{clean_path}"
DeriveGcsPath(file_path) == <<"library", "/">> \o LStrip(file_path)

ManifestPaths == {FilePathStr(f) : f \in Files}
BlobNames == {DeriveGcsPath(k) : k \in ManifestPaths}

\* f"sha256:{hexdigest}": the digest is a function of the bytes read
CalculateSha256(c) == <<"sha256", c.size, c.data>>

EmptyTable == [k \in ManifestPaths |-> NoEntry]
Rows(t) == {k \in ManifestPaths : t[k] # NoEntry}

\* SELECT ... FROM files WHERE file_path = ?
GetFileInfo(t, file_path) == t[file_path]

\* faulty variant: the row is never written
UpdateFileInfoDropped(t, file_path, checksum, size, archived) == t

\* INSERT OR REPLACE INTO files (file_path, checksum, size, archived)
UpdateFileInfo(t, file_path, checksum, size, archived) ==
    [t EXCEPT ![file_path] = [checksum |-> checksum, size |-> size,
                              archived |-> IF archived THEN 1 ELSE 0]]

\* retry_with_backoff: func is attempted until it succeeds or max_retries
\* attempts have failed; fails is the number of leading attempts that fail
RetryWithBackoff(max_retries, fails) == fails < max_retries

\* faulty variant: no fast path, every file is hashed
FastPathSkipNever(existing_info, file_size) == FALSE

\* lines 318-322: an entry of the same size means unchanged
FastPathSkip(existing_info, file_size) ==
    existing_info # NoEntry /\ existing_info.size = file_size

\* faulty variant: the second lookup never skips
SlowPathSkipNever(existing_info, checksum) == FALSE

\* faulty variant: the second lookup skips whatever the entry's checksum
SlowPathSkipAnyEntry(existing_info, checksum) == existing_info # NoEntry

\* lines 330-332: an entry of the same checksum means unchanged
SlowPathSkip(existing_info, checksum) ==
    existing_info # NoEntry /\ existing_info.checksum = checksum

\* the numbers of failing attempts the remote may answer a retried call with
Fails(max_retries) == IF env.faults > 0 THEN 0 .. max_retries ELSE {0}
\* the outcomes of a single remote call
Flaky == IF env.faults > 0 THEN BOOLEAN ELSE {TRUE}
\* whether a write whose call raised was stored all the same
Lost == IF env.faults > 0 THEN BOOLEAN ELSE {FALSE}
\* the environment after a remote call that raised, or did not
Charge(raised) == [env EXCEPT !.faults = IF raised THEN @ - 1 ELSE @]

(***************************************************************************)
(* _process_single_file, run by the pool's workers.                        *)
(***************************************************************************)
\* pc, file_size, checksum and status are the worker's; the other fields
\* record what the call has done so far: the entry found at its first
\* lookup, whether it hashed, made a remote call, had its write and its
\* confirmation succeed, had a remote call raise, found the file gone, and
\* how often the file was submitted and its outcome aggregated in this run
NoTask == [pc |-> "none", file_size |-> 0, checksum |-> <<"none", 0, "none">>,
           status |-> "none", before |-> NoEntry, hashed |-> FALSE,
           remote |-> FALSE, wrote |-> FALSE, confirmed |-> FALSE,
           raised |-> FALSE, gone |-> FALSE, stage |-> "none",
           submitted |-> 0, aggregated |-> 0]

Running == {f \in Files : task[f].pc \in {"hash", "upload", "setclass", "verify", "upsert"}}

\* the executor's work queue is FIFO: the first submitted future not yet started
NextPending(f) ==
    \E i \in 1 .. Len(futures) :
        /\ futures[i] = f
        /\ task[f].pc = "pending"
        /\ \A j \in 1 .. (i - 1) : task[futures[j]].pc # "pending"

Finish(f, status, stage) ==
    [task[f] EXCEPT !.pc = "done", !.status = status, !.stage = stage]

\* _get_connection after a load() that left an unreadable file at
\* temp_db_path (lines 122-124, 78-87): sqlite3.connect opens it, self.conn
\* is set, and every statement on it raises sqlite3.DatabaseError
ConnBroken == main.load \in {"partial", "garbage"}

\* lines 309-322: stat, first manifest lookup, fast path
TaskStat(f) ==
    /\ NextPending(f)
    /\ Cardinality(Running) < UPLOAD_WORKERS
    /\ LET k == FilePathStr(f)
           existing_info == GetFileInfo(conn, k)
       IN  task' = [task EXCEPT ![f] =
               IF fs[f] = NoFile
               THEN [Finish(f, "error", "stat") EXCEPT !.before = existing_info,
                                                       !.gone = TRUE]
               ELSE IF ConnBroken
               THEN [Finish(f, "error", "lookup") EXCEPT !.before = existing_info,
                                                         !.file_size = fs[f].size]
               ELSE IF FastPathSkip(existing_info, fs[f].size)
               THEN [Finish(f, "skipped", "fast") EXCEPT !.before = existing_info,
                                                         !.file_size = fs[f].size]
               ELSE [task[f] EXCEPT !.pc = "hash", !.file_size = fs[f].size,
                                    !.before = existing_info]]
    /\ UNCHANGED <<fs, gcsLib, gcsManifest, gcsCopies, conn, dbFile, futures, file_queue,
                   prod, main, total_files, new_files, skipped_files, errors,
                   completed, run, env, hist>>
    /\ UNCHANGED <<pipe, unitvars>>

\* lines 324-332: checksum, second manifest lookup, slow-path skip
TaskHash(f) ==
    /\ task[f].pc = "hash"
    /\ LET k == FilePathStr(f)
           checksum == CalculateSha256(fs[f])
           existing_info == GetFileInfo(conn, k)
       IN  task' = [task EXCEPT ![f] =
               IF fs[f] = NoFile
               THEN [Finish(f, "error", "hash") EXCEPT !.gone = TRUE]
               ELSE IF SlowPathSkip(existing_info, checksum)
               THEN [Finish(f, "skipped", "slow") EXCEPT !.hashed = TRUE,
                                                         !.checksum = checksum]
               ELSE [task[f] EXCEPT !.pc = "upload", !.checksum = checksum,
                                    !.hashed = TRUE]]
    /\ UNCHANGED <<fs, gcsLib, gcsManifest, gcsCopies, conn, dbFile, futures, file_queue,
                   prod, main, total_files, new_files, skipped_files, errors,
                   completed, run, env, hist>>
    /\ UNCHANGED <<pipe, unitvars>>

\* faulty variant: the entry is written as soon as the content is, unconfirmed
TaskUploadEager(f) ==
    /\ task[f].pc = "upload"
    /\ fs[f] # NoFile
    /\ gcsLib' = [gcsLib EXCEPT ![DeriveGcsPath(FilePathStr(f))] = fs[f]]
    /\ conn' = UpdateFileInfo(conn, FilePathStr(f), task[f].checksum,
                              task[f].file_size, FALSE)
    /\ task' = [task EXCEPT ![f].pc = "setclass", ![f].wrote = TRUE,
                            ![f].remote = TRUE]
    /\ UNCHANGED <<fs, gcsManifest, gcsCopies, dbFile, futures, file_queue,
                   prod, main, total_files, new_files, skipped_files, errors,
                   completed, run, env, hist>>
    /\ UNCHANGED <<pipe, unitvars>>

\* lines 341-350: blob.upload_from_filename under retry_with_backoff(5)
TaskUpload(f) ==
    /\ task[f].pc = "upload"
    /\ LET b == DeriveGcsPath(FilePathStr(f))
       IN  \E fails \in Fails(UploadRetries), stored \in Lost :
             IF fs[f] = NoFile
             THEN \* the local file is gone: every attempt raises
                  /\ task' = [task EXCEPT ![f] =
                        [Finish(f, "error", "upload") EXCEPT !.gone = TRUE]]
                  /\ UNCHANGED <<gcsLib, env>>
             ELSE IF RetryWithBackoff(UploadRetries, fails)
             THEN /\ gcsLib' = [gcsLib EXCEPT ![b] = fs[f]]
                  /\ task' = [task EXCEPT ![f].pc = "setclass", ![f].wrote = TRUE,
                                          ![f].remote = TRUE]
                  /\ UNCHANGED env
             ELSE \* every attempt raised; an attempt whose response was lost
                  \* may still have stored the object
                  /\ gcsLib' = IF stored THEN [gcsLib EXCEPT ![b] = fs[f]]
                               ELSE gcsLib
                  /\ task' = [task EXCEPT ![f] =
                        [Finish(f, "error", "upload") EXCEPT !.remote = TRUE,
                                                            !.raised = TRUE]]
                  /\ env' = Charge(TRUE)
    /\ UNCHANGED <<fs, gcsManifest, gcsCopies, conn, dbFile, futures, file_queue,
                   prod, main, total_files, new_files, skipped_files, errors,
                   completed, run, hist>>
    /\ UNCHANGED <<pipe, unitvars>>

\* lines 353-365: blob.reload(), called once, then set_storage_class under
\* retry(3)
TaskSetClass(f) ==
    /\ task[f].pc = "setclass"
    /\ LET b == DeriveGcsPath(FilePathStr(f))
       IN  \E reloaded \in Flaky, fails \in Fails(ClassRetries) :
             LET ok == reloaded /\ RetryWithBackoff(ClassRetries, fails)
             IN  /\ task' = [task EXCEPT ![f] =
                       IF ok /\ gcsLib[b] # NoFile
                       THEN [task[f] EXCEPT !.pc = "verify"]
                       ELSE IF ~reloaded
                       THEN [Finish(f, "error", "reload") EXCEPT !.raised = TRUE]
                       ELSE [Finish(f, "error", "setclass") EXCEPT !.raised = ~ok]]
                 /\ env' = Charge(~ok)
    /\ UNCHANGED <<fs, gcsLib, gcsManifest, gcsCopies, conn, dbFile, futures, file_queue,
                   prod, main, total_files, new_files, skipped_files, errors,
                   completed, run, hist>>
    /\ UNCHANGED <<pipe, unitvars>>

\* faulty variant: the outcome of the confirmation is ignored
TaskVerifyUnchecked(f) ==
    /\ task[f].pc = "verify"
    /\ \E fails \in Fails(VerifyRetries) :
         LET ok == RetryWithBackoff(VerifyRetries, fails)
         IN  /\ task' = [task EXCEPT ![f].pc = "upsert", ![f].confirmed = ok,
                                     ![f].raised = ~ok]
             /\ env' = Charge(~ok)
    /\ UNCHANGED <<fs, gcsLib, gcsManifest, gcsCopies, conn, dbFile, futures,
                   file_queue, prod, main, total_files, new_files,
                   skipped_files, errors, completed, run, hist>>
    /\ UNCHANGED <<pipe, unitvars>>

\* lines 368-373: verify_upload (blob.exists()) under retry(3)
TaskVerify(f) ==
    /\ task[f].pc = "verify"
    /\ LET b == DeriveGcsPath(FilePathStr(f))
       IN  \E fails \in Fails(VerifyRetries) :
             LET ok == RetryWithBackoff(VerifyRetries, fails)
             IN  /\ task' = [task EXCEPT ![f] =
                       IF ok /\ gcsLib[b] # NoFile
                       THEN [task[f] EXCEPT !.pc = "upsert", !.confirmed = TRUE]
                       ELSE [Finish(f, "error", "verify") EXCEPT !.raised = ~ok]]
                 /\ env' = Charge(~ok)
    /\ UNCHANGED <<fs, gcsLib, gcsManifest, gcsCopies, conn, dbFile, futures, file_queue,
                   prod, main, total_files, new_files, skipped_files, errors,
                   completed, run, hist>>
    /\ UNCHANGED <<pipe, unitvars>>

\* lines 376-379: manifest.update_file_info under the lock, return 'uploaded'
TaskUpsert(f) ==
    /\ task[f].pc = "upsert"
    /\ conn' = UpdateFileInfo(conn, FilePathStr(f), task[f].checksum,
                              task[f].file_size, FALSE)
    /\ task' = [task EXCEPT ![f] = Finish(f, "uploaded", "upsert")]
    /\ UNCHANGED <<fs, gcsLib, gcsManifest, gcsCopies, dbFile, futures, file_queue,
                   prod, main, total_files, new_files, skipped_files, errors,
                   completed, run, env, hist>>
    /\ UNCHANGED <<pipe, unitvars>>

(***************************************************************************)
(* BackupManifest persistence.                                             *)
(***************************************************************************)
\* faulty variant: the upload returns and nothing is stored
SaveToGcsNowhere(table, remote, fails, stored) == remote

\* save_to_gcs, lines 146-164: commit, then upload_manifest under retry(3);
\* the bucket's manifest.db afterwards: the local database file as it is
SaveToGcs(table, remote, fails, stored) ==
    IF RetryWithBackoff(ManifestRetries, fails) \/ stored
    THEN [exists |-> TRUE, files |-> table, readable |-> ~ConnBroken]
    ELSE remote

\* whether save_to_gcs returned without raising
SaveToGcsOk(fails) == RetryWithBackoff(ManifestRetries, fails)

\* faulty variant: every process starts from an empty index
LoadFresh(outcome) == EmptyTable

\* load, lines 117-137: the files table the process starts from
Load(outcome) ==
    IF outcome = "found" THEN gcsManifest.files ELSE EmptyTable

\* blob.exists() answers and the blob, if any, is downloaded and opened
\* ("absent", "found"), or opening it raises ("garbage": the blob is not a
\* readable database), or blob.exists() or the download's first request
\* raises ("error"), or the download raises part-way and leaves the file
\* truncated ("partial")
LoadOutcomes ==
    (IF ~gcsManifest.exists THEN {"absent"}
     ELSE IF gcsManifest.readable THEN {"found"} ELSE {"garbage"})
        \cup (IF env.faults > 0 THEN {"error"} ELSE {})
        \cup (IF env.faults > 0 /\ gcsManifest.exists THEN {"partial"} ELSE {})

(***************************************************************************)
(* _process_completed_future: aggregation and periodic checkpoint.         *)
(***************************************************************************)
Agg == [new_files |-> new_files, skipped_files |-> skipped_files,
        errors |-> errors, completed |-> completed,
        dbFile |-> dbFile, gcsManifest |-> gcsManifest, raised |-> FALSE,
        task |-> task]

\* lines 420-433
CheckpointDue(n) == n > 0 /\ n % CommitEvery = 0

\* faulty variant: an 'error' outcome leaves no error record
ProcessCompletedFutureSilent(a, f, fails, stored) ==
    [a EXCEPT !.new_files = IF task[f].status = "uploaded" THEN @ + 1 ELSE @,
              !.skipped_files = IF task[f].status = "skipped" THEN @ + 1 ELSE @,
              !.completed = @ + 1,
              !.task = [a.task EXCEPT ![f].aggregated = @ + 1]]

\* lines 399-436, for the completed future of file f
ProcessCompletedFuture(a, f, fails, stored) ==
    LET status == task[f].status
        nf == IF status = "uploaded" THEN a.new_files + 1 ELSE a.new_files
        sk == IF status = "skipped" THEN a.skipped_files + 1 ELSE a.skipped_files
        er == IF status = "error" THEN Append(a.errors, FilePathStr(f)) ELSE a.errors
    IN  [new_files |-> nf, skipped_files |-> sk, errors |-> er,
         completed |-> a.completed + 1,
         dbFile |-> IF CheckpointDue(nf) THEN conn ELSE a.dbFile,
         gcsManifest |-> IF CheckpointDue(nf)
                         THEN SaveToGcs(conn, a.gcsManifest, fails, stored)
                         ELSE a.gcsManifest,
         raised |-> a.raised \/ (CheckpointDue(nf) /\ ~SaveToGcsOk(fails)),
         task |-> [a.task EXCEPT ![f].aggregated = @ + 1]]

Done(f) == task[f].pc = "done"

RECURSIVE DrainAll(_, _, _, _)
\* lines 519-526: every future of the list that is done, in list order
DrainAll(a, futs, fails, stored) ==
    IF futs = <<>> THEN a
    ELSE IF Done(Head(futs))
         THEN DrainAll(ProcessCompletedFuture(a, Head(futs), fails, stored),
                       Tail(futs), fails, stored)
         ELSE DrainAll(a, Tail(futs), fails, stored)

\* futures.remove(completed_future)
Remove(futs, f) == SelectSeq(futs, LAMBDA x : x # f)
NotDone(futs) == SelectSeq(futs, LAMBDA x : ~Done(x))

SetAgg(a) ==
    /\ new_files' = a.new_files
    /\ skipped_files' = a.skipped_files
    /\ errors' = a.errors
    /\ completed' = a.completed
    /\ dbFile' = a.dbFile
    /\ gcsManifest' = a.gcsManifest
    /\ env' = Charge(a.raised)
    /\ task' = a.task

(***************************************************************************)
(* file_producer: the discovery thread.                                    *)
(***************************************************************************)
queue_size == UPLOAD_WORKERS * QueueFactor

\* pc and listing are the thread's; emitted counts the puts of each file
NoProducer == [pc |-> "none", listing |-> {}, emitted |-> [f \in Files |-> 0]]

TopFiles == {f \in Files : Len(f) = 1}
SubFiles == Files \ TopFiles
Present(S) == {f \in S : fs[f] # NoFile}

\* lines 479-485: one file of the directory being enumerated
ProducerPut(f) ==
    /\ prod.pc \in {"top", "sub"}
    /\ f \in prod.listing
    /\ Len(file_queue) < queue_size
    /\ total_files' = total_files + 1
    /\ file_queue' = Append(file_queue, f)
    /\ prod' = [prod EXCEPT !.listing = @ \ {f}, !.emitted[f] = @ + 1]
    /\ UNCHANGED <<fs, gcsLib, gcsManifest, gcsCopies, conn, dbFile, task, futures, main,
                   new_files, skipped_files, errors, completed, run, env, hist>>
    /\ UNCHANGED <<pipe, unitvars>>

\* line 478: os.walk moves on to the subdirectory and enumerates it
ProducerDescend ==
    /\ prod.pc = "top"
    /\ prod.listing = {}
    /\ prod' = [prod EXCEPT !.pc = "sub", !.listing = Present(SubFiles)]
    /\ UNCHANGED <<fs, gcsLib, gcsManifest, gcsCopies, conn, dbFile, task, futures,
                   file_queue, main, total_files, new_files, skipped_files,
                   errors, completed, run, env, hist>>
    /\ UNCHANGED <<pipe, unitvars>>

\* lines 487-489: the sentinel after the last file
ProducerSentinel ==
    /\ prod.pc = "sub"
    /\ prod.listing = {}
    /\ Len(file_queue) < queue_size
    /\ file_queue' = Append(file_queue, Sentinel)
    /\ prod' = [prod EXCEPT !.pc = "done"]
    /\ UNCHANGED <<fs, gcsLib, gcsManifest, gcsCopies, conn, dbFile, task, futures, main,
                   total_files, new_files, skipped_files, errors, completed,
                   run, env, hist>>
    /\ UNCHANGED <<pipe, unitvars>>

(***************************************************************************)
(* main and backup_library_files: the main thread.                         *)
(***************************************************************************)
\* the edits of the source tree still to come
Edits == env.writes + Len(env.script)

\* the summary of the process that ends
Summary(ended, code, remote) ==
    [ended |-> ended, load |-> main.load, uploaded |-> new_files,
     skipped |-> skipped_files, nerrors |-> Len(errors),
     total |-> total_files, count |-> Cardinality(Rows(conn)),
     saved |-> remote.exists /\ remote.readable /\ remote.files = conn,
     exit |-> code, flushed |-> remote.files, save_ok |-> main.save_ok,
     saves |-> main.saves, fallbacks |-> main.fallbacks,
     table |-> conn, w0 |-> main.w0, w1 |-> Edits]

\* lines 700-719: the required settings are present and the client is built
StartupOk == env.config \notin {"no_bucket", "no_database", "no_client"}

\* lines 700-719: sys.exit(1) before the manifest is created; no handler has
\* a manifest to flush
MainAbort ==
    /\ main.pc = "load"
    /\ ~StartupOk
    /\ hist' = Append(hist, Summary("startup", 1, gcsManifest))
    /\ main' = [main EXCEPT !.pc = "exited"]
    /\ UNCHANGED <<fs, gcsLib, gcsManifest, gcsCopies, conn, dbFile, task,
                   futures, file_queue, prod, total_files, new_files,
                   skipped_files, errors, completed, run, env>>
    /\ UNCHANGED <<pipe, unitvars>>

\* main, lines 721-747, and backup_library_files up to the producer's start;
\* lines 451-454: sys.exit(1) when LIBRARY_PATH does not exist
MainStart ==
    /\ main.pc = "load"
    /\ StartupOk
    /\ \E outcome \in LoadOutcomes :
        /\ conn' = Load(outcome)
        /\ dbFile' = Load(outcome)
        /\ main' = [main EXCEPT
                       !.pc = IF env.config = "no_library" THEN "sysexit" ELSE "get",
                       !.load = outcome]
        /\ env' = Charge(outcome \in {"error", "partial"})
    /\ prod' = IF env.config = "no_library" THEN prod
               ELSE [prod EXCEPT !.pc = "top", !.listing = Present(TopFiles)]
    /\ UNCHANGED <<fs, gcsLib, gcsManifest, gcsCopies, task, futures,
                   file_queue, total_files, new_files, skipped_files, errors,
                   completed, run, hist>>
    /\ UNCHANGED <<pipe, unitvars>>

\* lines 511-526: take the next path, then drain the futures that are done
MainGet ==
    /\ main.pc = "get"
    /\ file_queue # <<>>
    /\ file_queue' = Tail(file_queue)
    /\ IF Head(file_queue) = Sentinel
       THEN /\ main' = [main EXCEPT !.pc = "final"]
            /\ UNCHANGED <<futures, new_files, skipped_files, errors,
                           completed, dbFile, gcsManifest, env, task>>
       ELSE /\ main' = [main EXCEPT !.pc = "wait", !.cur = Head(file_queue)]
            /\ futures' = NotDone(futures)
            /\ \E fails \in Fails(ManifestRetries), stored \in Lost :
                 SetAgg(DrainAll(Agg, futures, fails, stored))
    /\ UNCHANGED <<fs, gcsLib, gcsCopies, conn, prod, total_files, run, hist>>
    /\ UNCHANGED <<pipe, unitvars>>

\* lines 530-542: at the ceiling, drain one completed future
MainWait ==
    /\ main.pc = "wait"
    /\ Len(futures) >= MAX_PENDING_FUTURES
    /\ \E i \in 1 .. Len(futures) :
        /\ Done(futures[i])
        /\ \A j \in 1 .. (i - 1) : ~Done(futures[j])
        /\ futures' = Remove(futures, futures[i])
        /\ \E fails \in Fails(ManifestRetries), stored \in Lost :
             SetAgg(ProcessCompletedFuture(Agg, futures[i], fails, stored))
    /\ UNCHANGED <<fs, gcsLib, gcsCopies, conn, file_queue, prod, main,
                   total_files, run, hist>>
    /\ UNCHANGED <<pipe, unitvars>>

\* lines 545-546: executor.submit
MainSubmit ==
    /\ main.pc = "wait"
    /\ Len(futures) < MAX_PENDING_FUTURES
    /\ futures' = Append(futures, main.cur)
    /\ task' = [task EXCEPT ![main.cur] =
                   [NoTask EXCEPT !.pc = "pending",
                                  !.submitted = task[main.cur].submitted + 1,
                                  !.aggregated = task[main.cur].aggregated]]
    /\ main' = [main EXCEPT !.pc = "get", !.cur = NoPath]
    /\ UNCHANGED <<fs, gcsLib, gcsManifest, gcsCopies, conn, dbFile,
                   file_queue, prod, total_files, new_files, skipped_files,
                   errors, completed, run, env, hist>>
    /\ UNCHANGED <<pipe, unitvars>>

\* lines 549-556: join the producer, then as_completed over what is left
MainAsCompleted(f) ==
    /\ main.pc = "final"
    /\ prod.pc = "done"
    /\ \E i \in 1 .. Len(futures) : futures[i] = f
    /\ Done(f)
    /\ futures' = Remove(futures, f)
    /\ \E fails \in Fails(ManifestRetries), stored \in Lost :
         SetAgg(ProcessCompletedFuture(Agg, f, fails, stored))
    /\ UNCHANGED <<fs, gcsLib, gcsCopies, conn, file_queue, prod, main,
                   total_files, run, hist>>
    /\ UNCHANGED <<pipe, unitvars>>

\* lines 558-572: final local commit, flush when something was uploaded
MainPost ==
    /\ main.pc = "final"
    /\ prod.pc = "done"
    /\ futures = <<>>
    /\ dbFile' = conn
    /\ IF new_files > 0
       THEN \E fails \in Fails(ManifestRetries), stored \in Lost :
              /\ gcsManifest' = SaveToGcs(conn, gcsManifest, fails, stored)
              /\ env' = Charge(~SaveToGcsOk(fails))
       ELSE UNCHANGED <<gcsManifest, env>>
    /\ main' = [main EXCEPT !.pc = "db", !.returned = TRUE]
    /\ UNCHANGED <<fs, gcsLib, gcsCopies, conn, task, futures, file_queue,
                   prod, total_files, new_files, skipped_files, errors,
                   completed, run, hist>>
    /\ UNCHANGED <<pipe, unitvars>>

\* lines 764-768: backup_database, an external collaborator
BackupDatabase ==
    /\ main.pc = "db"
    /\ \E ok \in BOOLEAN : main' = [main EXCEPT !.pc = "save", !.db_success = ok]
    /\ UNCHANGED <<fs, gcsLib, gcsManifest, gcsCopies, conn, dbFile, task,
                   futures, file_queue, prod, total_files, new_files,
                   skipped_files, errors, completed, run, env, hist>>
    /\ UNCHANGED <<pipe, unitvars>>

\* faulty variant: a failed save() is not followed by the lightweight save
MainSaveNoFallback ==
    /\ main.pc = "save"
    /\ dbFile' = conn
    /\ \E fails \in Fails(ManifestRetries), stored \in Lost, copied \in Flaky,
          kept \in Lost :
         LET first == SaveToGcs(conn, gcsManifest, fails, stored)
         IN  IF ConnBroken
             THEN /\ gcsManifest' = first
                  /\ gcsCopies' = gcsCopies
                  /\ env' = Charge(~SaveToGcsOk(fails))
                  /\ main' = [main EXCEPT !.pc = "exit", !.saves = @ + 1,
                                          !.fallbacks = @ + 1]
             ELSE IF SaveToGcsOk(fails) /\ copied
             THEN /\ gcsManifest' = first
                  /\ gcsCopies' = gcsCopies + 1
                  /\ main' = [main EXCEPT !.pc = "exit", !.save_ok = TRUE,
                                          !.saves = @ + 1]
                  /\ UNCHANGED env
             ELSE \* save() raised, with the copy stored (lines 171-173: the
                  \* upload was made and a later call raised) or not: one
                  \* lightweight save_to_gcs
                  \E fails2 \in (IF env.faults > 1 THEN 0 .. ManifestRetries ELSE {0}),
                     stored2 \in (IF env.faults > 1 THEN BOOLEAN ELSE {FALSE}) :
                    /\ gcsManifest' = first
                    /\ gcsCopies' = IF SaveToGcsOk(fails) /\ kept
                                    THEN gcsCopies + 1 ELSE gcsCopies
                    /\ env' = [env EXCEPT !.faults =
                                  IF SaveToGcsOk(fails2) THEN @ - 1 ELSE @ - 2]
                    /\ main' = [main EXCEPT !.pc = "exit", !.saves = @ + 1]
    /\ UNCHANGED <<fs, gcsLib, conn, task, futures, file_queue, prod,
                   total_files, new_files, skipped_files, errors, completed,
                   run, hist>>
    /\ UNCHANGED <<pipe, unitvars>>

\* faulty variant: the lightweight save writes a timestamped copy as well
MainSaveCopyAlways ==
    /\ main.pc = "save"
    /\ dbFile' = conn
    /\ \E fails \in Fails(ManifestRetries), stored \in Lost, copied \in Flaky,
          kept \in Lost :
         LET first == SaveToGcs(conn, gcsManifest, fails, stored)
         IN  IF ConnBroken
             THEN /\ gcsManifest' = first
                  /\ gcsCopies' = IF SaveToGcsOk(fails)
                                  THEN gcsCopies + 1 ELSE gcsCopies
                  /\ env' = Charge(~SaveToGcsOk(fails))
                  /\ main' = [main EXCEPT !.pc = "exit", !.saves = @ + 1,
                                          !.fallbacks = @ + 1]
             ELSE IF SaveToGcsOk(fails) /\ copied
             THEN /\ gcsManifest' = first
                  /\ gcsCopies' = gcsCopies + 1
                  /\ main' = [main EXCEPT !.pc = "exit", !.save_ok = TRUE,
                                          !.saves = @ + 1]
                  /\ UNCHANGED env
             ELSE \* save() raised, with the copy stored (lines 171-173: the
                  \* upload was made and a later call raised) or not: one
                  \* lightweight save_to_gcs
                  \E fails2 \in (IF env.faults > 1 THEN 0 .. ManifestRetries ELSE {0}),
                     stored2 \in (IF env.faults > 1 THEN BOOLEAN ELSE {FALSE}) :
                    /\ gcsManifest' = SaveToGcs(conn, first, fails2, stored2)
                    /\ gcsCopies' = gcsCopies + 1
                    /\ env' = [env EXCEPT !.faults =
                                  IF SaveToGcsOk(fails2) THEN @ - 1 ELSE @ - 2]
                    /\ main' = [main EXCEPT !.pc = "exit", !.saves = @ + 1,
                                            !.fallbacks = @ + 1]
    /\ UNCHANGED <<fs, gcsLib, conn, task, futures, file_queue, prod,
                   total_files, new_files, skipped_files, errors, completed,
                   run, hist>>
    /\ UNCHANGED <<pipe, unitvars>>

\* lines 772-781: manifest.save(), with the lightweight save as fallback; on
\* a broken connection save() raises at its metadata INSERT, before any upload
MainSave ==
    /\ main.pc = "save"
    /\ dbFile' = conn
    /\ \E fails \in Fails(ManifestRetries), stored \in Lost, copied \in Flaky,
          kept \in Lost :
         LET first == SaveToGcs(conn, gcsManifest, fails, stored)
         IN  IF ConnBroken
             THEN /\ gcsManifest' = first
                  /\ gcsCopies' = gcsCopies
                  /\ env' = Charge(~SaveToGcsOk(fails))
                  /\ main' = [main EXCEPT !.pc = "exit", !.saves = @ + 1,
                                          !.fallbacks = @ + 1]
             ELSE IF SaveToGcsOk(fails) /\ copied
             THEN /\ gcsManifest' = first
                  /\ gcsCopies' = gcsCopies + 1
                  /\ main' = [main EXCEPT !.pc = "exit", !.save_ok = TRUE,
                                          !.saves = @ + 1]
                  /\ UNCHANGED env
             ELSE \* save() raised, with the copy stored (lines 171-173: the
                  \* upload was made and a later call raised) or not: one
                  \* lightweight save_to_gcs
                  \E fails2 \in (IF env.faults > 1 THEN 0 .. ManifestRetries ELSE {0}),
                     stored2 \in (IF env.faults > 1 THEN BOOLEAN ELSE {FALSE}) :
                    /\ gcsManifest' = SaveToGcs(conn, first, fails2, stored2)
                    /\ gcsCopies' = IF SaveToGcsOk(fails) /\ kept
                                    THEN gcsCopies + 1 ELSE gcsCopies
                    /\ env' = [env EXCEPT !.faults =
                                  IF SaveToGcsOk(fails2) THEN @ - 1 ELSE @ - 2]
                    /\ main' = [main EXCEPT !.pc = "exit", !.saves = @ + 1,
                                            !.fallbacks = @ + 1]
    /\ UNCHANGED <<fs, gcsLib, conn, task, futures, file_queue, prod,
                   total_files, new_files, skipped_files, errors, completed,
                   run, hist>>
    /\ UNCHANGED <<pipe, unitvars>>

\* faulty variant: a failed database dump fails the job
ExitCodeOnDump ==
    IF ~main.db_success THEN 1
    ELSE IF errors # <<>> THEN (IF new_files > 0 THEN 0 ELSE 1) ELSE 0

\* lines 828-841
ExitCode == IF errors # <<>> THEN (IF new_files > 0 THEN 0 ELSE 1) ELSE 0

\* lines 789-841: summary, cleanup, sys.exit; the atexit flush then finds the
\* local database file removed, and every attempt of its upload raises
MainExit ==
    /\ main.pc = "exit"
    /\ hist' = Append(hist, Summary("normal", ExitCode, gcsManifest))
    /\ main' = [main EXCEPT !.pc = "exited"]
    /\ UNCHANGED <<fs, gcsLib, gcsManifest, gcsCopies, conn, dbFile, task,
                   futures, file_queue, prod, total_files, new_files,
                   skipped_files, errors, completed, run, env>>
    /\ UNCHANGED <<pipe, unitvars>>

(***************************************************************************)
(* Termination signals: _signal_handler, then interpreter shutdown.        *)
(***************************************************************************)
\* lines 676-687: one flush when the manifest is set, then sys.exit(1)
SignalHandler ==
    /\ env.signals > 0
    /\ main.pc \in {"load", "get", "wait", "final", "db", "save", "exit"}
    /\ IF main.load = "none"
       THEN /\ UNCHANGED <<dbFile, gcsManifest>>
            /\ env' = [env EXCEPT !.signals = @ - 1]
       ELSE /\ dbFile' = conn
            /\ \E fails \in Fails(ManifestRetries), stored \in Lost :
                 /\ gcsManifest' = SaveToGcs(conn, gcsManifest, fails, stored)
                 /\ env' = [Charge(~SaveToGcsOk(fails)) EXCEPT !.signals = @ - 1]
    /\ main' = [main EXCEPT !.pc = "sigexit"]
    /\ UNCHANGED <<fs, gcsLib, gcsCopies, conn, task, futures, file_queue,
                   prod, total_files, new_files, skipped_files, errors,
                   completed, run, hist>>
    /\ UNCHANGED <<pipe, unitvars>>

\* how a process that raised SystemExit part-way ended
Ended == IF main.pc = "sigexit" THEN "signal" ELSE "sysexit"

\* SystemExit leaves the executor's with-block (shutdown(wait=True): every
\* submitted future runs), the producer thread is joined, and save_on_exit
\* (lines 731-740) flushes once more
ExitAfterSignal ==
    /\ main.pc \in {"sigexit", "sysexit"}
    /\ \A f \in Files : task[f].pc \in {"none", "done"}
    /\ prod.pc \in {"none", "done"}
    /\ IF main.load = "none"
       THEN /\ UNCHANGED <<dbFile, gcsManifest, env>>
            /\ hist' = Append(hist, Summary(Ended, 1, gcsManifest))
       ELSE /\ dbFile' = conn
            /\ \E fails \in Fails(ManifestRetries), stored \in Lost :
                 /\ gcsManifest' = SaveToGcs(conn, gcsManifest, fails, stored)
                 /\ env' = Charge(~SaveToGcsOk(fails))
                 /\ hist' = Append(hist, Summary(Ended, 1, gcsManifest'))
    /\ main' = [main EXCEPT !.pc = "exited"]
    /\ UNCHANGED <<fs, gcsLib, gcsCopies, conn, task, futures, file_queue,
                   prod, total_files, new_files, skipped_files, errors,
                   completed, run>>
    /\ UNCHANGED <<pipe, unitvars>>

(***************************************************************************)
(* The environment: the next process, and writers of the source tree.      *)
(***************************************************************************)
NoMain == [pc |-> "load", cur |-> NoPath, load |-> "none", db_success |-> FALSE,
           returned |-> FALSE, save_ok |-> FALSE, saves |-> 0, fallbacks |-> 0,
           w0 |-> 0]

\* the job is started again: a fresh process, the same bucket
StartProcess ==
    /\ main.pc = "exited"
    /\ run < MaxRuns
    /\ env.script = <<>>
    /\ run' = run + 1
    /\ main' = [NoMain EXCEPT !.w0 = Edits]
    /\ conn' = EmptyTable
    /\ dbFile' = EmptyTable
    /\ task' = [f \in Files |-> NoTask]
    /\ futures' = <<>>
    /\ file_queue' = <<>>
    /\ prod' = NoProducer
    /\ total_files' = 0
    /\ new_files' = 0
    /\ skipped_files' = 0
    /\ errors' = <<>>
    /\ completed' = 0
    /\ UNCHANGED <<fs, gcsLib, gcsManifest, gcsCopies, env, hist>>
    /\ UNCHANGED <<pipe, unitvars>>

\* the scenario's edit of file 2 between the first run and the second
ScriptedWrite ==
    /\ main.pc = "exited"
    /\ env.script # <<>>
    /\ fs' = [fs EXCEPT ![<<"f2">>] = Head(env.script)]
    /\ env' = [env EXCEPT !.script = Tail(@)]
    /\ UNCHANGED <<gcsLib, gcsManifest, gcsCopies, conn, dbFile, task,
                   futures, file_queue, prod, main, total_files, new_files,
                   skipped_files, errors, completed, run, hist>>
    /\ UNCHANGED <<pipe, unitvars>>

\* the process is terminated abruptly: no handler runs, its threads and its
\* local database file are gone, the bucket stays as it is
Kill ==
    /\ env.kills > 0
    /\ main.pc \notin {"exited", "sigexit", "sysexit"}
    /\ env' = [env EXCEPT !.kills = @ - 1]
    /\ hist' = Append(hist, Summary("killed", 137, gcsManifest))
    /\ main' = [main EXCEPT !.pc = "exited"]
    /\ task' = [f \in Files |->
                  IF task[f].pc \in {"none", "done"} THEN task[f]
                  ELSE [task[f] EXCEPT !.pc = "killed"]]
    /\ prod' = [prod EXCEPT !.pc = "killed"]
    /\ UNCHANGED <<fs, gcsLib, gcsManifest, gcsCopies, conn, dbFile, futures,
                   file_queue, total_files, new_files, skipped_files, errors,
                   completed, run>>
    /\ UNCHANGED <<pipe, unitvars>>

\* a source file is rewritten, created or deleted
WriteFile(f, c) ==
    /\ env.writes > 0
    /\ fs[f] # c
    /\ fs' = [fs EXCEPT ![f] = c]
    /\ env' = [env EXCEPT !.writes = @ - 1]
    /\ UNCHANGED <<gcsLib, gcsManifest, gcsCopies, conn, dbFile, task,
                   futures, file_queue, prod, main, total_files, new_files,
                   skipped_files, errors, completed, run, hist>>
    /\ UNCHANGED <<pipe, unitvars>>

(***************************************************************************)
(* backup_library_files over a large tree of new files, by counts: every   *)
(* file is hashed, uploaded, confirmed and upserted, no remote call fails. *)
(***************************************************************************)
\* prod, total_files, file_queue (paths queued), sentinel (None queued),
\* main, cur (paths held by the submit loop), i (position of the drain
\* loop), futures (the state of each outstanding future), new_files and
\* completed are the code's; upserted counts the manifest rows written,
\* covered those of them in the last commit that was flushed to the bucket,
\* waited the ceiling drains made for the path held, attempt the uploads
\* tried by the signal handler's flush, max_pending_futures the ceiling the
\* loop reads from the configuration (line 504)
NoPipe == [prod |-> "walk", total_files |-> 0, file_queue |-> 0,
           sentinel |-> FALSE, main |-> "get", cur |-> 0, i |-> 1,
           futures |-> <<>>, new_files |-> 0, completed |-> 0,
           upserted |-> 0, covered |-> 0, waited |-> 0, attempt |-> 0,
           max_pending_futures |-> MAX_PENDING_FUTURES]

\* Queue(maxsize=queue_size): the slots taken
PipeQueued == pipe.file_queue + (IF pipe.sentinel THEN 1 ELSE 0)

\* the position of the first future of the list in state st, 0 if none
FirstIn(futs, st) ==
    IF \E j \in 1 .. Len(futs) : futs[j] = st
    THEN CHOOSE j \in 1 .. Len(futs) :
            futs[j] = st /\ \A k \in 1 .. (j - 1) : futs[k] # st
    ELSE 0

\* futures.remove: the list without its j-th element
RemoveAt(futs, j) == SubSeq(futs, 1, j - 1) \o SubSeq(futs, j + 1, Len(futs))

\* _process_completed_future for an 'uploaded' outcome, lines 402-436
PipeCompleted(p) ==
    [p EXCEPT !.new_files = @ + 1,
              !.completed = @ + 1,
              !.covered = IF CheckpointDue(p.new_files + 1) THEN p.upserted ELSE @]

\* lines 479-481: the walk yields a file, total_files += 1
PipeDiscover ==
    /\ pipe.prod = "walk"
    /\ pipe.total_files < PipeFiles
    /\ pipe' = [pipe EXCEPT !.prod = "put", !.total_files = @ + 1]
    /\ UNCHANGED <<filevars, unitvars>>

\* faulty variant: the queue has no capacity
PipePutUnbounded ==
    /\ pipe.prod = "put"
    /\ pipe' = [pipe EXCEPT !.prod = "walk", !.file_queue = @ + 1]
    /\ UNCHANGED <<filevars, unitvars>>

\* line 482: file_queue.put(file_path) blocks while the queue is full
PipePut ==
    /\ pipe.prod = "put"
    /\ PipeQueued < queue_size
    /\ pipe' = [pipe EXCEPT !.prod = "walk", !.file_queue = @ + 1]
    /\ UNCHANGED <<filevars, unitvars>>

\* lines 486-489: file_queue.put(None) after the walk
PipeSentinel ==
    /\ pipe.prod = "walk"
    /\ pipe.total_files = PipeFiles
    /\ PipeQueued < queue_size
    /\ pipe' = [pipe EXCEPT !.prod = "done", !.sentinel = TRUE]
    /\ UNCHANGED <<filevars, unitvars>>

\* lines 511-515: file_queue.get(); the sentinel is the last item
PipeGet ==
    /\ pipe.main = "get"
    /\ PipeQueued > 0
    /\ pipe' = IF pipe.file_queue > 0
               THEN [pipe EXCEPT !.file_queue = @ - 1, !.cur = 1,
                                 !.main = "drain", !.i = 1, !.waited = 0]
               ELSE [pipe EXCEPT !.sentinel = FALSE, !.main = "final"]
    /\ UNCHANGED <<filevars, unitvars>>

\* lines 519-526: one iteration of the loop over list(futures)
PipeDrain ==
    /\ pipe.main = "drain"
    /\ pipe' = IF pipe.i > Len(pipe.futures)
               THEN [pipe EXCEPT !.main = "wait"]
               ELSE IF pipe.futures[pipe.i] = "done"
               THEN [PipeCompleted(pipe) EXCEPT
                        !.futures = RemoveAt(pipe.futures, pipe.i)]
               ELSE [pipe EXCEPT !.i = @ + 1]
    /\ UNCHANGED <<filevars, unitvars>>

\* faulty variant: at the ceiling the loop submits without draining
PipeWaitSkipped ==
    /\ pipe.main = "wait"
    /\ Len(pipe.futures) >= pipe.max_pending_futures
    /\ pipe' = [pipe EXCEPT !.futures = Append(@, "pending"), !.cur = 0,
                            !.main = "get"]
    /\ UNCHANGED <<filevars, unitvars>>

\* lines 530-542: at the ceiling, the first future found done is removed
PipeWait ==
    /\ pipe.main = "wait"
    /\ Len(pipe.futures) >= pipe.max_pending_futures
    /\ FirstIn(pipe.futures, "done") # 0
    /\ pipe' = [PipeCompleted(pipe) EXCEPT
                   !.futures = RemoveAt(pipe.futures, FirstIn(pipe.futures, "done")),
                   !.waited = @ + 1]
    /\ UNCHANGED <<filevars, unitvars>>

\* lines 545-546: executor.submit, futures.append
PipeSubmit ==
    /\ pipe.main = "wait"
    /\ Len(pipe.futures) < pipe.max_pending_futures
    /\ pipe' = [pipe EXCEPT !.futures = Append(@, "pending"), !.cur = 0,
                            !.main = "get"]
    /\ UNCHANGED <<filevars, unitvars>>

\* lines 549-556: producer_thread.join(), then as_completed(futures)
PipeAsCompleted ==
    /\ pipe.main = "final"
    /\ pipe.prod = "done"
    /\ FirstIn(pipe.futures, "done") # 0
    /\ pipe' = [PipeCompleted(pipe) EXCEPT
                   !.futures = RemoveAt(pipe.futures, FirstIn(pipe.futures, "done"))]
    /\ UNCHANGED <<filevars, unitvars>>

\* lines 558-572: final commit, and flush since files were uploaded
PipePost ==
    /\ pipe.main = "final"
    /\ pipe.prod = "done"
    /\ pipe.futures = <<>>
    /\ pipe' = [pipe EXCEPT !.main = "returned",
                            !.covered = IF pipe.new_files > 0 THEN pipe.upserted ELSE @]
    /\ UNCHANGED <<filevars, unitvars>>

\* a free worker of the pool takes the oldest future not yet started
PipeWorkerStart ==
    /\ FirstIn(pipe.futures, "pending") # 0
    /\ Cardinality({j \in 1 .. Len(pipe.futures) : pipe.futures[j] = "running"})
           < UPLOAD_WORKERS
    /\ pipe' = [pipe EXCEPT !.futures[FirstIn(pipe.futures, "pending")] = "running"]
    /\ UNCHANGED <<filevars, unitvars>>

\* _process_single_file returns 'uploaded' after its upsert, lines 376-379
PipeWorkerDone ==
    /\ \E j \in 1 .. Len(pipe.futures) :
          /\ pipe.futures[j] = "running"
          /\ pipe' = [pipe EXCEPT !.futures[j] = "done", !.upserted = @ + 1]
    /\ UNCHANGED <<filevars, unitvars>>

\* lines 478-479, 490-491: the traversal raises, the producer logs the error
PipeWalkError ==
    /\ pipe.prod = "walk"
    /\ pipe.total_files < PipeFiles
    /\ pipe' = [pipe EXCEPT !.prod = "except"]
    /\ UNCHANGED <<filevars, unitvars>>

\* lines 492-493: file_queue.put(None) in the except branch
PipeSentinelOnError ==
    /\ pipe.prod = "except"
    /\ PipeQueued < queue_size
    /\ pipe' = [pipe EXCEPT !.prod = "done", !.sentinel = TRUE]
    /\ UNCHANGED <<filevars, unitvars>>

(***************************************************************************)
(* A termination signal during the pipeline: _signal_handler on the main   *)
(* thread, then SystemExit through the executor's with-block and the       *)
(* interpreter's shutdown.                                                 *)
(***************************************************************************)
\* lines 676-680: the signal interrupts the main thread inside the
\* executor's with-block (lines 505-556)
PipeSignal ==
    /\ pipe.main \in {"get", "drain", "wait", "final"}
    /\ pipe' = [pipe EXCEPT !.main = "flushing"]
    /\ UNCHANGED <<filevars, unitvars>>

\* lines 681-687, 159-164: one attempt of upload_manifest under
\* retry_with_backoff(max_retries=3); after a success, or after the last
\* attempt raised and the handler logged it, sys.exit(1)
PipeHandlerFlush ==
    /\ pipe.main = "flushing"
    /\ pipe.attempt < ManifestRetries
    /\ \E ok \in BOOLEAN :
         pipe' = [pipe EXCEPT
            !.attempt = @ + 1,
            !.main = IF ok \/ pipe.attempt + 1 = ManifestRetries
                     THEN "unwinding" ELSE @]
    /\ UNCHANGED <<filevars, unitvars>>

\* line 505: SystemExit leaves 'with ThreadPoolExecutor', whose __exit__
\* is shutdown(wait=True): it returns when every submitted future has run
PipeExecutorExit ==
    /\ pipe.main = "unwinding"
    /\ \A j \in 1 .. Len(pipe.futures) : pipe.futures[j] = "done"
    /\ pipe' = [pipe EXCEPT !.main = "joining"]
    /\ UNCHANGED <<filevars, unitvars>>

\* lines 496-497: the producer is a non-daemon thread, which the
\* interpreter joins before the process ends
PipeProcessExit ==
    /\ pipe.main = "joining"
    /\ pipe.prod = "done"
    /\ pipe' = [pipe EXCEPT !.main = "exited"]
    /\ UNCHANGED <<filevars, unitvars>>

(***************************************************************************)
(* The files table of _init_schema under update_file_info, as SQL rows.    *)
(***************************************************************************)
\* rows is the table; last and upserts record, for each path, the row of
\* the last update_file_info for it and how many there were
NoSqlite == [rows |-> {}, last |-> [k \in ManifestPaths |-> NoEntry],
             upserts |-> [k \in ManifestPaths |-> 0]]

\* the row of VALUES (?, ?, ?, ?), line 216
Row(file_path, checksum, size, archived) ==
    [file_path |-> file_path, checksum |-> checksum, size |-> size,
     archived |-> IF archived THEN 1 ELSE 0]

\* faulty variant: a plain INSERT into a table without the key
InsertPlain(rows, row) == rows \cup {row}

\* INSERT OR REPLACE on file_path TEXT PRIMARY KEY (lines 99-100, 212-216):
\* the row in conflict on the key is deleted, then the row is inserted
InsertOrReplace(rows, row) ==
    {r \in rows : r.file_path # row.file_path} \cup {row}

\* update_file_info(file_path, checksum, size, archived)
SqliteUpsert(file_path, c, archived) ==
    /\ sqlite.upserts[file_path] < MaxUpserts
    /\ LET row == Row(file_path, CalculateSha256(c), c.size, archived)
       IN  sqlite' = [rows |-> InsertOrReplace(sqlite.rows, row),
                      last |-> [sqlite.last EXCEPT ![file_path] = row],
                      upserts |-> [sqlite.upserts EXCEPT ![file_path] = @ + 1]]
    /\ UNCHANGED <<filevars, pipe, retry, bucket, lk, loc, agg, rec, ex>>

(***************************************************************************)
(* retry_with_backoff, one call, attempt by attempt.                       *)
(***************************************************************************)
NoError == <<"none", 0>>

\* attempt, delay and last_exception are the function's locals; calls lists
\* the outcome of each invocation of func, sleeps the delays slept, and
\* outcome is what the call returned or raised
NoRetry == [max_retries |-> 1, initial_delay |-> 1, max_delay |-> 1,
            backoff_factor |-> 1, pc |-> "loop", attempt |-> 0, delay |-> 1,
            last_exception |-> NoError, calls |-> <<>>, sleeps |-> <<>>,
            outcome |-> NoError]

Min(a, b) == IF a < b THEN a ELSE b

\* line 293: delay = min(delay * backoff_factor, max_delay)
NextDelay(delay, backoff_factor, max_delay) == Min(delay * backoff_factor, max_delay)

\* line 287: func() returns, and so does retry_with_backoff
RetryReturn ==
    /\ retry.pc = "loop"
    /\ retry.attempt < retry.max_retries
    /\ retry' = [retry EXCEPT !.pc = "returned",
                              !.calls = Append(@, <<"ok", retry.attempt + 1>>),
                              !.outcome = <<"ok", retry.attempt + 1>>]
    /\ UNCHANGED <<filevars, pipe, sqlite, bucket, lk, loc, agg, rec, ex>>

\* faulty variant: the first exception is kept, later ones are dropped
RetryFailKeepFirst ==
    /\ retry.pc = "loop"
    /\ retry.attempt < retry.max_retries
    /\ LET e == <<"error", retry.attempt + 1>>
           more == retry.attempt < retry.max_retries - 1
       IN  retry' = [retry EXCEPT
               !.calls = Append(@, e),
               !.last_exception = IF @ = NoError THEN e ELSE @,
               !.sleeps = IF more THEN Append(@, retry.delay) ELSE @,
               !.delay = IF more
                         THEN NextDelay(@, retry.backoff_factor, retry.max_delay)
                         ELSE @,
               !.attempt = @ + 1]
    /\ UNCHANGED <<filevars, pipe, sqlite, bucket, lk, loc, agg, rec, ex>>

\* lines 288-295: func() raises; sleep and grow the delay unless this was
\* the last attempt
RetryFail ==
    /\ retry.pc = "loop"
    /\ retry.attempt < retry.max_retries
    /\ LET e == <<"error", retry.attempt + 1>>
           more == retry.attempt < retry.max_retries - 1
       IN  retry' = [retry EXCEPT
               !.calls = Append(@, e),
               !.last_exception = e,
               !.sleeps = IF more THEN Append(@, retry.delay) ELSE @,
               !.delay = IF more
                         THEN NextDelay(@, retry.backoff_factor, retry.max_delay)
                         ELSE @,
               !.attempt = @ + 1]
    /\ UNCHANGED <<filevars, pipe, sqlite, bucket, lk, loc, agg, rec, ex>>

\* line 297: raise last_exception
RetryRaise ==
    /\ retry.pc = "loop"
    /\ retry.attempt = retry.max_retries
    /\ retry' = [retry EXCEPT !.pc = "raised", !.outcome = retry.last_exception]
    /\ UNCHANGED <<filevars, pipe, sqlite, bucket, lk, loc, agg, rec, ex>>

(***************************************************************************)
(* The bucket under every call of backup.py that changes it: the uploads   *)
(* of lines 154, 171, 347 and 626 and the blob.delete() of line 667.       *)
(***************************************************************************)
\* an object is named dir + base + ext and carries its time_created; clock
\* is the time of the next upload, deleted counts the objects deleted
NoBucket == [objects |-> {}, clock |-> 1, deleted |-> 0]

Obj(dir, base, ext, time) == [dir |-> dir, base |-> base, ext |-> ext, time |-> time]
NameOf(o) == <<o.dir, o.base, o.ext>>
Names(objs) == {NameOf(o) : o \in objs}

\* blob.upload_from_filename: the object of that name is created or replaced
Upload(objs, o) == {p \in objs : NameOf(p) # NameOf(o)} \cup {o}

\* faulty variant: every object under database/ is taken for a dump
DbBackupsUnfiltered(objs) == {o \in objs : o.dir = "database/"}

\* lines 657-658: list_blobs(prefix='database/'), names ending in .sql.gz
DbBackups(objs) ==
    {o \in objs : o.dir = "database/" /\ o.ext = ".sql.gz"}

\* how many of the dumps were created after o
Newer(objs, o) == Cardinality({p \in DbBackups(objs) : p.time > o.time})

\* lines 661-665: db_backups[DB_BACKUP_RETENTION:] of the list sorted by
\* time_created, newest first
Expired(objs) ==
    {o \in DbBackups(objs) : Newer(objs, o) >= DB_BACKUP_RETENTION}

\* lines 665-667: the loop deletes the expired dumps, newest first; it ends
\* early when a blob.delete() raises: the first n are deleted
Deleted(objs, n) ==
    {o \in Expired(objs) : Newer(objs, o) < DB_BACKUP_RETENTION + n}

\* line 347: a worker uploads a library file
BucketUploadFile(k) ==
    /\ bucket.clock <= MaxClock
    /\ bucket' = [bucket EXCEPT
          !.objects = Upload(@, Obj("library/", LStrip(k), "", bucket.clock)),
          !.clock = @ + 1]
    /\ UNCHANGED <<filevars, pipe, sqlite, retry, lk, loc, agg, rec, ex>>

\* lines 152-157, and 167-173 when include_backup: manifest.db, and the
\* copy named after the time
BucketSaveToGcs(include_backup) ==
    /\ bucket.clock <= MaxClock
    /\ LET first == Upload(bucket.objects,
                           Obj("", <<"manifest">>, ".db", bucket.clock))
           copy == Obj("", <<"manifest-", bucket.clock>>, ".db", bucket.clock)
       IN  bucket' = [bucket EXCEPT
               !.objects = IF include_backup THEN Upload(first, copy) ELSE first,
               !.clock = @ + 1]
    /\ UNCHANGED <<filevars, pipe, sqlite, retry, lk, loc, agg, rec, ex>>

\* backup_database, lines 625-638: the dump named after the time is
\* uploaded, then cleanup_old_db_backups runs unless a call raised (ok)
BucketBackupDatabase ==
    /\ bucket.clock <= MaxClock
    /\ \E ok \in BOOLEAN :
         LET dump == Obj("database/", <<bucket.clock, "-immich">>, ".sql.gz",
                         bucket.clock)
             objs == Upload(bucket.objects, dump)
         IN  \E n \in 0 .. Cardinality(Expired(objs)) :
               bucket' = [bucket EXCEPT
                  !.objects = IF ok THEN objs \ Deleted(objs, n) ELSE objs,
                  !.deleted = IF ok THEN @ + Cardinality(Deleted(objs, n)) ELSE @,
                  !.clock = @ + 1]
    /\ UNCHANGED <<filevars, pipe, sqlite, retry, lk, loc, agg, rec, ex>>

\* someone else stores an object under database/, a dump or not
BucketForeign(ext) ==
    /\ bucket.clock <= MaxClock
    /\ bucket' = [bucket EXCEPT
          !.objects = Upload(@, Obj("database/", <<"foreign">>, ext, bucket.clock)),
          !.clock = @ + 1]
    /\ UNCHANGED <<filevars, pipe, sqlite, retry, lk, loc, agg, rec, ex>>

(***************************************************************************)
(* The locks around the manifest: manifest_lock of backup_library_files    *)
(* (line 461), taken by the workers and by the checkpoint code, and         *)
(* _global_manifest_lock of main (line 728), taken by the signal handler.  *)
(***************************************************************************)
\* each lock is free or names its holder; worker[w] is where worker w is in
\* _process_single_file, main where the main thread is in
\* _process_completed_future, handler where _signal_handler is
NoLocks == [manifest_lock |-> "free", global_lock |-> "free",
            worker |-> [w \in 1 .. UPLOAD_WORKERS |-> "idle"],
            main |-> "loop", handler |-> "none"]

\* the statements under 'with manifest_lock' in a worker: the two lookups
\* (lines 316-322, 328-332) and the upsert (lines 376-377)
WorkerLocked == {"lookup", "lookup2", "upsert"}

\* the statements under 'with manifest_lock' in the main thread: the commit
\* (lines 421-422) and the flush (lines 429-430) of a checkpoint
MainLocked == {"commit", "flush"}

\* faulty variant: the worker enters the block without taking the lock
LkWorkerAcquireUnlocked(w) ==
    /\ lk.worker[w] \in {"idle", "hashing", "uploading"}
    /\ lk' = [lk EXCEPT !.worker[w] = CASE @ = "idle" -> "lookup"
                                        [] @ = "hashing" -> "lookup2"
                                        [] @ = "uploading" -> "upsert"]
    /\ UNCHANGED <<filevars, pipe, sqlite, retry, bucket, loc, agg, rec, ex>>

\* a worker enters 'with manifest_lock': it blocks while the lock is held
LkWorkerAcquire(w) ==
    /\ lk.worker[w] \in {"idle", "hashing", "uploading"}
    /\ lk.manifest_lock = "free"
    /\ lk' = [lk EXCEPT !.manifest_lock = <<"worker", w>>,
                        !.worker[w] = CASE @ = "idle" -> "lookup"
                                        [] @ = "hashing" -> "lookup2"
                                        [] @ = "uploading" -> "upsert"]
    /\ UNCHANGED <<filevars, pipe, sqlite, retry, bucket, loc, agg, rec, ex>>

\* a worker leaves the block: the file is skipped (or the call returns
\* after its upsert) and the worker takes the next file, or it goes on to
\* the checksum or to the upload
LkWorkerRelease(w) ==
    /\ lk.worker[w] \in WorkerLocked
    /\ \E skipped \in BOOLEAN :
         lk' = [lk EXCEPT !.manifest_lock = "free",
                         !.worker[w] = IF skipped \/ @ = "upsert" THEN "idle"
                                       ELSE IF @ = "lookup" THEN "hashing"
                                       ELSE "uploading"]
    /\ UNCHANGED <<filevars, pipe, sqlite, retry, bucket, loc, agg, rec, ex>>

\* the main thread enters 'with manifest_lock' for the commit of a
\* checkpoint, then again for its flush
LkMainAcquire ==
    /\ lk.handler = "none"
    /\ lk.main \in {"loop", "committed"}
    /\ lk.manifest_lock = "free"
    /\ lk' = [lk EXCEPT !.manifest_lock = <<"main">>,
                        !.main = IF @ = "loop" THEN "commit" ELSE "flush"]
    /\ UNCHANGED <<filevars, pipe, sqlite, retry, bucket, loc, agg, rec, ex>>

LkMainRelease ==
    /\ lk.handler = "none"
    /\ lk.main \in MainLocked
    /\ lk' = [lk EXCEPT !.manifest_lock = "free",
                        !.main = IF @ = "commit" THEN "committed" ELSE "loop"]
    /\ UNCHANGED <<filevars, pipe, sqlite, retry, bucket, loc, agg, rec, ex>>

\* lines 676-683: a signal arrives; the handler runs on the main thread,
\* wherever that thread is, takes _global_manifest_lock and starts
\* save_to_gcs (commit, then upload of the database file)
LkSignal ==
    /\ lk.handler = "none"
    /\ lk.global_lock = "free"
    /\ lk' = [lk EXCEPT !.global_lock = <<"handler">>, !.handler = "flush"]
    /\ UNCHANGED <<filevars, pipe, sqlite, retry, bucket, loc, agg, rec, ex>>

\* lines 683-687: the flush ends, the lock is released, sys.exit(1)
LkHandlerExit ==
    /\ lk.handler = "flush"
    /\ lk' = [lk EXCEPT !.global_lock = "free", !.handler = "exited"]
    /\ UNCHANGED <<filevars, pipe, sqlite, retry, bucket, loc, agg, rec, ex>>

\* lines 676-683 again: a second signal (SIGTERM and SIGINT share the
\* handler, lines 694-695) arrives while the handler is inside its flush;
\* the new call of the handler runs on the same thread, above the first,
\* and enters 'with _global_manifest_lock', a threading.Lock that the first
\* call holds and cannot release before the second returns
LkSignalNested ==
    /\ lk.handler = "flush"
    /\ lk' = [lk EXCEPT !.handler = "waiting"]
    /\ UNCHANGED <<filevars, pipe, sqlite, retry, bucket, loc, agg, rec, ex>>

(***************************************************************************)
(* The object name of a library file, as the backup writes it and as       *)
(* restore.py and verify-restore.py read it.                               *)
(***************************************************************************)
PathChars == {"a", "b", "/"}

\* relative_path.as_posix() of a file below LIBRARY_PATH (line 306-307):
\* segments separated by single slashes
RelPaths ==
    {p \in UNION {[1 .. n -> PathChars] : n \in 1 .. MaxPathLen} :
        /\ p[1] # "/"
        /\ p[Len(p)] # "/"
        /\ \A j \in 1 .. (Len(p) - 1) : ~(p[j] = "/" /\ p[j + 1] = "/")}

NoName == <<>>

\* rel is the file's relative path, file_path the key of its manifest row,
\* and written, restored and verified the object names used by backup.py,
\* restore.py and verify-restore.py
NoLoc == [rel |-> <<"a">>, file_path |-> NoName, written |-> NoName,
          restored |-> NoName, verified |-> NoName]

\* restore.py line 245: gcs_path = f"library/{file_path}"
RestoreGcsPath(file_path) == <<"library", "/">> \o file_path

\* verify-restore.py lines 79-83: derive_gcs_path
VerifyDeriveGcsPath(file_path) == <<"library", "/">> \o LStrip(file_path)

\* backup.py lines 306-307, 335-336, 377: the object is written and the row
\* keyed by file_path_str is upserted
LocBackup ==
    /\ loc.file_path = NoName
    /\ loc' = [loc EXCEPT !.file_path = FilePathStr(loc.rel),
                          !.written = DeriveGcsPath(FilePathStr(loc.rel))]
    /\ UNCHANGED <<filevars, pipe, sqlite, retry, bucket, lk, agg, rec, ex>>

\* restore.py lines 242-260: the row is read and its object downloaded
LocRestore ==
    /\ loc.file_path # NoName
    /\ loc.restored = NoName
    /\ loc' = [loc EXCEPT !.restored = RestoreGcsPath(loc.file_path)]
    /\ UNCHANGED <<filevars, pipe, sqlite, retry, bucket, lk, agg, rec, ex>>

\* verify-restore.py lines 91-100: the row is read and its object checked
LocVerify ==
    /\ loc.file_path # NoName
    /\ loc.verified = NoName
    /\ loc' = [loc EXCEPT !.verified = VerifyDeriveGcsPath(loc.file_path)]
    /\ UNCHANGED <<filevars, pipe, sqlite, retry, bucket, lk, agg, rec, ex>>

(***************************************************************************)
(* The aggregation of outcomes: _process_completed_future, called by the   *)
(* main thread once for each completed future, in any order of outcomes.   *)
(***************************************************************************)

\* the outcomes of a future: the three statuses of process_file, and an
\* exception of future.result()
Outcomes == {"uploaded", "skipped", "error", "raised"}

\* the counters of backup_library_files, with the number of local commits
\* and of remote flushes the periodic checkpoint has made
NoAgg == [new_files |-> 0, skipped_files |-> 0, errors |-> 0, completed |-> 0,
          commits |-> 0, flushes |-> 0]

\* lines 399-441: the counter of the outcome, then the checkpoint on the
\* count of uploaded files as it now stands, then completed + 1
AggCompleted(status) ==
    /\ status = "uploaded" => agg.new_files < MaxUploaded
    /\ status # "uploaded" => agg.skipped_files + agg.errors < MaxOthers
    /\ LET nf == IF status = "uploaded" THEN agg.new_files + 1
                 ELSE agg.new_files
           due == status # "raised" /\ CheckpointDue(nf)
       IN  agg' = [new_files |-> nf,
                   skipped_files |-> IF status = "skipped"
                                     THEN agg.skipped_files + 1
                                     ELSE agg.skipped_files,
                   errors |-> IF status \in {"error", "raised"}
                              THEN agg.errors + 1 ELSE agg.errors,
                   completed |-> agg.completed + 1,
                   commits |-> IF due THEN agg.commits + 1 ELSE agg.commits,
                   flushes |-> IF due THEN agg.flushes + 1 ELSE agg.flushes]
    /\ UNCHANGED <<filevars, pipe, sqlite, retry, bucket, lk, loc, rec, ex>>

(***************************************************************************)
(* One file through _process_single_file in successive runs that keep the  *)
(* manifest: the entry found, the path taken and the entry left.           *)
(***************************************************************************)
\* the file whose entry is followed
RecFile == <<"f1">>

\* file is the content on disk, table the files table, pc where the worker
\* is, file_size and checksum its locals, writes the rewrites of the file
\* so far, paths one record per finished call: its outcome, the size it
\* read, the entry it found and the entry it left, the content on disk at
\* its end and the rewrites so far
NoRec == [file |-> [size |-> 10, data |-> "a"], table |-> EmptyTable,
          pc |-> "idle", file_size |-> 0, checksum |-> <<"none", 0, "none">>,
          writes |-> 0, paths |-> <<>>]

\* the record of a finished call
RecPath(outcome, file_size, after) ==
    [outcome |-> outcome, file_size |-> file_size,
     before |-> GetFileInfo(rec.table, FilePathStr(RecFile)),
     after |-> GetFileInfo(after, FilePathStr(RecFile)),
     file |-> rec.file, writes |-> rec.writes]

\* lines 309-322: stat, first lookup, fast path
RecStat ==
    /\ rec.pc = "idle"
    /\ Len(rec.paths) < MaxRecRuns
    /\ LET existing_info == GetFileInfo(rec.table, FilePathStr(RecFile))
           file_size == rec.file.size
       IN  rec' = IF FastPathSkip(existing_info, file_size)
                  THEN [rec EXCEPT !.paths = Append(@,
                            RecPath("fast", file_size, rec.table))]
                  ELSE [rec EXCEPT !.pc = "hash", !.file_size = file_size]
    /\ UNCHANGED <<filevars, pipe, sqlite, retry, bucket, lk, loc, agg, ex>>

\* faulty variant: the slow-path skip refreshes the size of the entry
RecHashRefresh ==
    /\ rec.pc = "hash"
    /\ LET checksum == CalculateSha256(rec.file)
           existing_info == GetFileInfo(rec.table, FilePathStr(RecFile))
           fresh == UpdateFileInfo(rec.table, FilePathStr(RecFile), checksum,
                                   rec.file_size, FALSE)
       IN  rec' = IF SlowPathSkip(existing_info, checksum)
                  THEN [rec EXCEPT !.pc = "idle", !.table = fresh,
                                   !.paths = Append(@,
                            RecPath("slow", rec.file_size, fresh))]
                  ELSE [rec EXCEPT !.pc = "upload", !.checksum = checksum]
    /\ UNCHANGED <<filevars, pipe, sqlite, retry, bucket, lk, loc, agg, ex>>

\* lines 324-332: checksum, second lookup, slow-path skip
RecHash ==
    /\ rec.pc = "hash"
    /\ LET checksum == CalculateSha256(rec.file)
           existing_info == GetFileInfo(rec.table, FilePathStr(RecFile))
       IN  rec' = IF SlowPathSkip(existing_info, checksum)
                  THEN [rec EXCEPT !.pc = "idle",
                                   !.paths = Append(@,
                            RecPath("slow", rec.file_size, rec.table))]
                  ELSE [rec EXCEPT !.pc = "upload", !.checksum = checksum]
    /\ UNCHANGED <<filevars, pipe, sqlite, retry, bucket, lk, loc, agg, ex>>

\* lines 334-389: upload, storage class and verification, then the upsert
\* of the checksum computed and the size read at the start; or an error
RecUpload(ok) ==
    /\ rec.pc = "upload"
    /\ LET after == IF ok
                    THEN UpdateFileInfo(rec.table, FilePathStr(RecFile),
                                        rec.checksum, rec.file_size, FALSE)
                    ELSE rec.table
       IN  rec' = [rec EXCEPT !.pc = "idle", !.table = after,
                              !.paths = Append(@,
                     RecPath(IF ok THEN "uploaded" ELSE "error",
                             rec.file_size, after))]
    /\ UNCHANGED <<filevars, pipe, sqlite, retry, bucket, lk, loc, agg, ex>>

\* the file is rewritten, at any moment of a call or between two runs
RecWrite(c) ==
    /\ rec.writes < MaxRecWrites
    /\ c # rec.file
    /\ rec' = [rec EXCEPT !.file = c, !.writes = @ + 1]
    /\ UNCHANGED <<filevars, pipe, sqlite, retry, bucket, lk, loc, agg, ex>>

(***************************************************************************)
(* The end of main: the final save, cleanup and the atexit flush, by the   *)
(* contents of the index (a content is the number of rows it holds).       *)
(***************************************************************************)
\* the local file or the remote object does not exist (no number of rows)
Absent == -1

\* pc is where main is; conn whether the connection is open and table what
\* it shows; temp_db_path whether BackupManifest.temp_db_path is set and
\* file what the file at that path holds; remote is manifest.db in the
\* bucket, at_cleanup what it held when cleanup was called, attempt the
\* uploads tried by the atexit flush
NoEx == [pc |-> "save", conn |-> TRUE, table |-> 0, temp_db_path |-> TRUE,
         file |-> 0, remote |-> Absent, at_cleanup |-> Absent, attempt |-> 0]

\* lines 770-781: manifest.save() commits and uploads the file; when it
\* raises, save_to_gcs uploads it once more
ExSave(ok, ok2) ==
    /\ ex.pc = "save"
    /\ ex' = [ex EXCEPT !.file = ex.table,
                        !.remote = IF ok \/ ok2 THEN ex.table ELSE @,
                        !.pc = "cleanup"]
    /\ UNCHANGED <<filevars, pipe, sqlite, retry, bucket, lk, loc, agg, rec>>

\* faulty variant: cleanup also forgets the path of the file it removed
ExCleanupForgetPath ==
    /\ ex.pc = "cleanup"
    /\ ex' = [ex EXCEPT !.conn = FALSE, !.file = Absent,
                        !.temp_db_path = FALSE,
                        !.at_cleanup = ex.remote, !.pc = "atexit"]
    /\ UNCHANGED <<filevars, pipe, sqlite, retry, bucket, lk, loc, agg, rec>>

\* lines 823, 233-242: cleanup closes the connection and removes the file;
\* temp_db_path keeps the path
ExCleanup ==
    /\ ex.pc = "cleanup"
    /\ ex' = [ex EXCEPT !.conn = FALSE, !.file = Absent,
                        !.at_cleanup = ex.remote, !.pc = "atexit"]
    /\ UNCHANGED <<filevars, pipe, sqlite, retry, bucket, lk, loc, agg, rec>>

\* lines 828-841, 731-740, 139-164: sys.exit, then save_on_exit calls
\* save_to_gcs: no commit on a closed connection; _get_db_path (lines
\* 70-76) creates an empty file only when no path is set; one attempt of
\* upload_manifest under retry_with_backoff(3), which raises when the file
\* does not exist
ExAtexitAttempt(ok) ==
    /\ ex.pc = "atexit"
    /\ ex.attempt < ManifestRetries
    /\ LET file == IF ex.temp_db_path THEN ex.file ELSE 0
           done == file # Absent /\ ok
       IN  ex' = [ex EXCEPT
              !.temp_db_path = TRUE,
              !.file = file,
              !.attempt = @ + 1,
              !.remote = IF done THEN file ELSE @,
              !.pc = IF done \/ ex.attempt + 1 = ManifestRetries
                     THEN "exited" ELSE @]
    /\ UNCHANGED <<filevars, pipe, sqlite, retry, bucket, lk, loc, agg, rec>>

(***************************************************************************)
(* Specification: successive runs over a changing tree, with remote        *)
(* faults and termination signals.                                         *)
(***************************************************************************)
\* the tree of the concrete scenario: sizes 10, 20, 10, distinct contents
ScenarioTree ==
    (<<"f1">> :> [size |-> 10, data |-> "a"])
    @@ (<<"f2">> :> [size |-> 20, data |-> "a"])
    @@ (<<"d", "/", "f3">> :> [size |-> 10, data |-> "b"])

InitLocal ==
    /\ conn = EmptyTable
    /\ dbFile = EmptyTable
    /\ task = [f \in Files |-> NoTask]
    /\ futures = <<>>
    /\ file_queue = <<>>
    /\ prod = NoProducer
    /\ main = [NoMain EXCEPT !.w0 = Edits]
    /\ total_files = 0
    /\ new_files = 0
    /\ skipped_files = 0
    /\ errors = <<>>
    /\ completed = 0
    /\ run = 1
    /\ hist = <<>>

InitBucket ==
    /\ gcsLib = [b \in BlobNames |-> NoFile]
    /\ gcsManifest = [exists |-> FALSE, files |-> EmptyTable, readable |-> TRUE]
    /\ gcsCopies = 0

\* the settings of the process (lines 45-57, 700-719, 451-454): all present,
\* or GCS_BUCKET empty, or a database credential unset, or no usable
\* credentials for the client, or LIBRARY_PATH not an existing directory
Settings == {"ok", "no_bucket", "no_database", "no_client", "no_library"}

\* what the environment does in a behaviour: writers that race the run, or
\* remote faults and termination signals, or the scenario's edits of file 2
\* (same size; resized to 21 bytes, without and with remote faults; resized
\* to 21 bytes and back to 20), or remote faults, an abrupt termination and
\* the resize of file 2 before the next run, or one more remote fault, or a
\* process whose settings are incomplete
Profiles ==
    { [name |-> "writers", faults |-> 0, signals |-> 0, writes |-> MaxWrites,
       kills |-> 0, config |-> "ok", script |-> <<>>],
      [name |-> "faulty", faults |-> MaxFaults, signals |-> MaxSignals,
       writes |-> 0, kills |-> 0, config |-> "ok", script |-> <<>>],
      [name |-> "same_size", faults |-> 0, signals |-> 0, writes |-> 0, kills |-> 0,
       config |-> "ok", script |-> <<[size |-> 20, data |-> "b"]>>],
      [name |-> "resized", faults |-> 0, signals |-> 0, writes |-> 0, kills |-> 0,
       config |-> "ok", script |-> <<[size |-> 21, data |-> "b"]>>],
      [name |-> "resized_faulty", faults |-> MaxFaults, signals |-> 0,
       writes |-> 0, kills |-> 0, config |-> "ok",
       script |-> <<[size |-> 21, data |-> "b"]>>],
      [name |-> "resized_back", faults |-> 0, signals |-> 0, writes |-> 0, kills |-> 0,
       config |-> "ok", script |-> <<[size |-> 21, data |-> "b"], [size |-> 20, data |-> "b"]>>],
      [name |-> "crashed", faults |-> MaxFaults, signals |-> 0, writes |-> 0,
       kills |-> MaxKills, config |-> "ok",
       script |-> <<[size |-> 21, data |-> "b"]>>] }
    \cup { [name |-> "twice_faulty", faults |-> MaxFaults + 1, signals |-> 0,
             writes |-> 0, kills |-> 0, config |-> "ok", script |-> <<>>] }
    \cup { [name |-> "misconfigured", faults |-> f, signals |-> 0, writes |-> 0,
             kills |-> 0, config |-> c, script |-> <<>>] :
               f \in {0, MaxFaults}, c \in Settings \ {"ok"} }

Init ==
    /\ fs = ScenarioTree
    /\ InitBucket
    /\ env \in Profiles
    /\ InitLocal
    /\ pipe = NoPipe
    /\ sqlite = NoSqlite
    /\ retry = NoRetry
    /\ bucket = NoBucket /\ lk = NoLocks /\ loc = NoLoc /\ agg = NoAgg /\ rec = NoRec
    /\ ex = NoEx

Worker ==
    \E f \in Files :
        \/ TaskStat(f)
        \/ TaskHash(f)
        \/ TaskUpload(f)
        \/ TaskSetClass(f)
        \/ TaskVerify(f)
        \/ TaskUpsert(f)

Producer ==
    \/ \E f \in Files : ProducerPut(f)
    \/ ProducerDescend
    \/ ProducerSentinel

MainThread ==
    \/ MainAbort
    \/ MainStart
    \/ MainGet
    \/ MainWait
    \/ MainSubmit
    \/ \E f \in Files : MainAsCompleted(f)
    \/ MainPost
    \/ BackupDatabase
    \/ MainSave
    \/ MainExit

Environment ==
    \/ StartProcess
    \/ Kill
    \/ ScriptedWrite
    \/ \E f \in Files, c \in Content \cup {NoFile} : WriteFile(f, c)

Next ==
    \/ Worker
    \/ Producer
    \/ MainThread
    \/ SignalHandler
    \/ ExitAfterSignal
    \/ Environment

Spec == Init /\ [][Next]_vars

\* the file-by-file model at rest: an empty bucket, an undisturbed process
InitAtRest ==
    /\ fs = ScenarioTree
    /\ InitBucket
    /\ env = [name |-> "at_rest", faults |-> 0, signals |-> 0, writes |-> 0,
              kills |-> 0, config |-> "ok", script |-> <<>>]
    /\ InitLocal

\* one run over the large tree, on an empty bucket
PipeInit ==
    /\ InitAtRest
    /\ pipe = NoPipe
    /\ sqlite = NoSqlite
    /\ retry = NoRetry
    /\ bucket = NoBucket /\ lk = NoLocks /\ loc = NoLoc /\ agg = NoAgg /\ rec = NoRec
    /\ ex = NoEx

PipeNext ==
    \/ PipeDiscover
    \/ PipePut
    \/ PipeSentinel
    \/ PipeGet
    \/ PipeDrain
    \/ PipeWait
    \/ PipeSubmit
    \/ PipeAsCompleted
    \/ PipePost
    \/ PipeWorkerStart
    \/ PipeWorkerDone

PipeSpec == PipeInit /\ [][PipeNext]_vars

\* the threads of the pipeline
PipeProducerThread == PipeDiscover \/ PipePut \/ PipeSentinel
PipeMainThread ==
    \/ PipeGet \/ PipeDrain \/ PipeWait \/ PipeSubmit \/ PipeAsCompleted
    \/ PipePost \/ PipeHandlerFlush \/ PipeExecutorExit \/ PipeProcessExit
PipeWorkerThreads == PipeWorkerStart \/ PipeWorkerDone

ShutdownNext ==
    \/ PipeNext
    \/ PipeSignal
    \/ PipeHandlerFlush
    \/ PipeExecutorExit
    \/ PipeProcessExit

\* one run over the large tree that a signal may interrupt; every thread
\* that can take a step eventually takes one
ShutdownSpec ==
    /\ PipeInit
    /\ [][ShutdownNext]_vars
    /\ WF_vars(PipeProducerThread)
    /\ WF_vars(PipeMainThread)
    /\ WF_vars(PipeWorkerThreads)

\* the table after _init_schema, then any upserts
UpsertInit ==
    /\ InitAtRest
    /\ pipe = NoPipe
    /\ sqlite = NoSqlite
    /\ retry = NoRetry
    /\ bucket = NoBucket /\ lk = NoLocks /\ loc = NoLoc /\ agg = NoAgg /\ rec = NoRec
    /\ ex = NoEx

UpsertNext ==
    \E k \in ManifestPaths, c \in Content, archived \in BOOLEAN :
        SqliteUpsert(k, c, archived)

UpsertSpec == UpsertInit /\ [][UpsertNext]_vars

\* a call of retry_with_backoff with any arguments
RetryInit ==
    /\ InitAtRest
    /\ pipe = NoPipe
    /\ sqlite = NoSqlite
    /\ bucket = NoBucket /\ lk = NoLocks /\ loc = NoLoc /\ agg = NoAgg /\ rec = NoRec
    /\ ex = NoEx
    /\ \E n \in 1 .. MaxAttempts, d0 \in 1 .. MaxDelay, dmax \in 1 .. MaxDelay,
          b \in 1 .. MaxFactor :
          retry = [NoRetry EXCEPT !.max_retries = n, !.initial_delay = d0,
                                  !.max_delay = dmax, !.backoff_factor = b,
                                  !.delay = d0]

RetryNext ==
    \/ RetryReturn
    \/ RetryFail
    \/ RetryRaise

RetrySpec == RetryInit /\ [][RetryNext]_vars

\* the bucket, empty at first, under any uploads and dumps
BucketInit ==
    /\ InitAtRest
    /\ pipe = NoPipe
    /\ sqlite = NoSqlite
    /\ retry = NoRetry
    /\ bucket = NoBucket /\ lk = NoLocks /\ loc = NoLoc /\ agg = NoAgg /\ rec = NoRec
    /\ ex = NoEx

BucketNext ==
    \/ \E k \in ManifestPaths : BucketUploadFile(k)
    \/ \E include_backup \in BOOLEAN : BucketSaveToGcs(include_backup)
    \/ BucketBackupDatabase
    \/ \E ext \in {".sql.gz", ".txt"} : BucketForeign(ext)

BucketSpec == BucketInit /\ [][BucketNext]_vars

\* the pipeline's threads and the signal handler around the two locks
LockInit ==
    /\ InitAtRest
    /\ pipe = NoPipe
    /\ sqlite = NoSqlite
    /\ retry = NoRetry
    /\ bucket = NoBucket /\ lk = NoLocks /\ loc = NoLoc /\ agg = NoAgg /\ rec = NoRec
    /\ ex = NoEx

LockNext ==
    \/ \E w \in 1 .. UPLOAD_WORKERS : LkWorkerAcquire(w)
    \/ \E w \in 1 .. UPLOAD_WORKERS : LkWorkerRelease(w)
    \/ LkMainAcquire
    \/ LkMainRelease
    \/ LkSignal
    \/ LkHandlerExit

LockSpec == LockInit /\ [][LockNext]_vars

\* the same threads, with signals delivered at any point
SignalNext ==
    \/ LockNext
    \/ LkSignalNested

SignalSpec == LockInit /\ [][SignalNext]_vars

\* any file below LIBRARY_PATH, backed up, then restored and verified
LocInit ==
    /\ InitAtRest
    /\ pipe = NoPipe
    /\ sqlite = NoSqlite
    /\ retry = NoRetry
    /\ bucket = NoBucket /\ lk = NoLocks /\ agg = NoAgg /\ rec = NoRec
    /\ ex = NoEx
    /\ \E rel \in RelPaths : loc = [NoLoc EXCEPT !.rel = rel]

LocNext ==
    \/ LocBackup
    \/ LocRestore
    \/ LocVerify

LocSpec == LocInit /\ [][LocNext]_vars

\* the outcomes of a run's futures, in any number and order
AggInit ==
    /\ InitAtRest
    /\ pipe = NoPipe
    /\ sqlite = NoSqlite
    /\ retry = NoRetry
    /\ bucket = NoBucket /\ lk = NoLocks /\ loc = NoLoc
    /\ agg = NoAgg /\ rec = NoRec
    /\ ex = NoEx

AggNext == \E status \in Outcomes : AggCompleted(status)

AggSpec == AggInit /\ [][AggNext]_vars

EndNext ==
    \/ ShutdownNext
    \/ PipeWalkError
    \/ PipeSentinelOnError

\* one run over the large tree, whose traversal may raise and which a
\* signal may interrupt: every thread that can take a step eventually
\* takes one (the traversal's error is not forced)
EndSpec ==
    /\ PipeInit
    /\ [][EndNext]_vars
    /\ WF_vars(PipeProducerThread \/ PipeSentinelOnError)
    /\ WF_vars(PipeMainThread)
    /\ WF_vars(PipeWorkerThreads)

\* the values of the ceiling that the configuration can give, up to the
\* one of the other specifications
Ceilings == 0 .. MAX_PENDING_FUTURES

\* one uninterrupted run over the large tree under any ceiling; every
\* thread that can take a step eventually takes one
TermInit ==
    /\ InitAtRest
    /\ \E c \in Ceilings : pipe = [NoPipe EXCEPT !.max_pending_futures = c]
    /\ sqlite = NoSqlite
    /\ retry = NoRetry
    /\ bucket = NoBucket /\ lk = NoLocks /\ loc = NoLoc /\ agg = NoAgg /\ rec = NoRec
    /\ ex = NoEx

TermSpec ==
    /\ TermInit
    /\ [][PipeNext]_vars
    /\ WF_vars(PipeProducerThread)
    /\ WF_vars(PipeMainThread)
    /\ WF_vars(PipeWorkerThreads)

\* one file, new to the manifest, over successive runs
RecInit ==
    /\ InitAtRest
    /\ pipe = NoPipe
    /\ sqlite = NoSqlite
    /\ retry = NoRetry
    /\ bucket = NoBucket /\ lk = NoLocks /\ loc = NoLoc /\ agg = NoAgg
    /\ \E c \in Content : rec = [NoRec EXCEPT !.file = c]
    /\ ex = NoEx

RecNext ==
    \/ RecStat
    \/ RecHash
    \/ \E ok \in BOOLEAN : RecUpload(ok)
    \/ \E c \in Content : RecWrite(c)

RecSpec == RecInit /\ [][RecNext]_vars

\* a run at its final save: the index holds any number of rows, of which
\* the local file has a part committed and the bucket an earlier part, or
\* no manifest.db yet
ExInit ==
    /\ InitAtRest
    /\ pipe = NoPipe
    /\ sqlite = NoSqlite
    /\ retry = NoRetry
    /\ bucket = NoBucket /\ lk = NoLocks /\ loc = NoLoc /\ agg = NoAgg
    /\ rec = NoRec
    /\ \E t \in 0 .. MaxRows : \E f \in 0 .. t : \E r \in {Absent} \cup (0 .. f) :
          ex = [NoEx EXCEPT !.table = t, !.file = f, !.remote = r]

ExNext ==
    \/ \E ok \in BOOLEAN, ok2 \in BOOLEAN : ExSave(ok, ok2)
    \/ ExCleanup
    \/ \E ok \in BOOLEAN : ExAtexitAttempt(ok)

ExSpec == ExInit /\ [][ExNext]_vars

(***************************************************************************)
(* Properties.                                                             *)
(***************************************************************************)
K(f) == FilePathStr(f)
B(f) == DeriveGcsPath(FilePathStr(f))
F2 == <<"f2">>
Started(f) == task[f].pc \notin {"none", "pending"}
EntryOf(t) == [checksum |-> t.checksum, size |-> t.file_size, archived |-> 0]
\* runs i and i+1 both reached the end of main, and no source file was
\* written from the start of run i to the end of run i+1
TwoRunsSameTree(i) ==
    /\ hist[i].ended = "normal"
    /\ hist[i + 1].ended = "normal"
    /\ hist[i].w0 = hist[i + 1].w1
SecondRunSkipsAll(i) ==
    /\ hist[i + 1].uploaded = 0
    /\ hist[i + 1].skipped = hist[i + 1].total
    /\ hist[i + 1].count = hist[i].count

C2_FastPath ==
    /\ \A f \in Files :
        ( /\ Started(f)
          /\ ~task[f].gone
          /\ task[f].before # NoEntry
          /\ task[f].before.size = task[f].file_size )
        => /\ task[f].pc = "done"
           /\ task[f].status = "skipped"
           /\ ~task[f].hashed
           /\ ~task[f].remote
           /\ conn[K(f)] = task[f].before
    /\ (env.name = "same_size" /\ Len(hist) = 2)
        => (hist[2].uploaded = 0 /\ hist[2].skipped = 3)

C2_Witness ==
    /\ env.name = "same_size"
    /\ Len(hist) = 2
    /\ hist[1].uploaded = 3
    /\ task[F2].stage = "fast"
    /\ task[F2].status = "skipped"
    /\ CalculateSha256(fs[F2]) # conn[K(F2)].checksum
    /\ gcsLib[B(F2)] # fs[F2]

\* C3: a file whose entry records another size than stat reports, but the
\* checksum just computed, is skipped, and no remote write is made for it.
C3_SlowPathSkip ==
    \A f \in Files :
        ( /\ task[f].hashed
          /\ task[f].before # NoEntry
          /\ task[f].before.size # task[f].file_size
          /\ task[f].before.checksum = task[f].checksum )
        => /\ task[f].pc = "done"
           /\ task[f].status = "skipped"
           /\ ~task[f].remote
           /\ ~task[f].wrote

C3_Witness ==
    \E f \in Files :
        /\ task[f].pc = "done"
        /\ task[f].stage = "slow"
        /\ task[f].status = "skipped"
        /\ task[f].before.size # task[f].file_size
        /\ task[f].before.checksum = CalculateSha256(fs[f])

NeedsUpload(t) ==
    \/ t.before = NoEntry
    \/ (t.before.size # t.file_size /\ t.before.checksum # t.checksum)

\* the call for f ended with every read of the file, every manifest lookup
\* and every remote call having succeeded
CleanlyDone(f) ==
    task[f].pc = "done" /\ ~task[f].gone /\ ~task[f].raised
        /\ task[f].stage # "lookup"

C4_State ==
    /\ \A f \in Files :
        (CleanlyDone(f) /\ NeedsUpload(task[f]))
        => /\ task[f].status = "uploaded"
           /\ conn[K(f)] = EntryOf(task[f])
    /\ (env.name \in {"same_size", "resized", "resized_back"} /\ Len(hist) >= 1)
        => (hist[1].uploaded = 3 /\ hist[1].skipped = 0)

C4_Step ==
    \A f \in Files :
        (task[f].pc # "done" /\ task'[f].pc = "done" /\ task'[f].status = "uploaded")
        => conn' = [conn EXCEPT ![K(f)] = EntryOf(task'[f])]

\* C4: a file with no manifest entry, or with an entry that differs from it
\* in size and in checksum, whose reads and remote calls all succeed, ends
\* 'uploaded'; the step that ends it leaves the manifest with the entry
\* (computed checksum, stat'ed size) for its path and every other entry as it
\* was; in the scenario, run 1 on the empty manifest uploads 3 and skips 0.
C4_Upload == [][C4_Step /\ C4_State']_vars

C4_Witness ==
    /\ env.name = "resized"
    /\ Len(hist) = 1
    /\ run = 2
    /\ hist[1].uploaded = 3
    /\ CleanlyDone(F2)
    /\ task[F2].before # NoEntry
    /\ NeedsUpload(task[F2])
    /\ task[F2].status = "uploaded"
    /\ conn[K(F2)].size = 21
    /\ Cardinality(Rows(conn)) = 3

\* C5 (as stated): in the scenario, after file 2 got new content and its size
\* went to 21 bytes and back to 20 before run 2, run 2 uploads 1 and skips 2.
C5_RecheckAsStated ==
    (env.name = "resized_back" /\ Len(hist) = 2)
        => (hist[2].uploaded = 1 /\ hist[2].skipped = 2)

\* C5 (amended): in the scenario, after file 2 got new content and its size
\* went to 21 bytes and back to 20 before run 2, run 2 finds the recorded
\* size and skips it unhashed: uploaded=0, skipped=3; the checksum recheck
\* finds the change (uploaded=1, skipped=2) when the size is still 21 bytes
\* as run 2 starts.
C5_Recheck ==
    /\ (env.name = "resized_back" /\ Len(hist) = 2)
        => (hist[2].uploaded = 0 /\ hist[2].skipped = 3)
    /\ (env.name = "resized" /\ Len(hist) = 2)
        => (hist[2].uploaded = 1 /\ hist[2].skipped = 2)

C5_Witness ==
    /\ env.name = "resized_back"
    /\ Len(hist) = 2
    /\ hist[1].uploaded = 3
    /\ fs[F2] = [size |-> 20, data |-> "b"]
    /\ task[F2].stage = "fast"
    /\ ~task[F2].hashed
    /\ hist[2].skipped = 3

\* C6: a manifest entry is created or changed only by the upsert of the call
\* for its path, and only after that call's remote write and then its
\* existence confirmation succeeded (a starting process replaces the whole
\* in-memory table by what load() gives it).
C6_UpsertLast ==
    [][\A k \in ManifestPaths :
          conn'[k] # conn[k]
          => \/ main.pc \in {"load", "exited"}
             \/ \E f \in Files :
                  /\ k = K(f)
                  /\ task[f].pc = "upsert"
                  /\ task'[f].status = "uploaded"
                  /\ task[f].wrote
                  /\ task[f].confirmed
                  /\ gcsLib[B(f)] # NoFile
                  /\ conn'[k] = EntryOf(task[f])]_vars

C6_Witness ==
    \E f \in Files :
        /\ task[f].status = "uploaded"
        /\ task[f].wrote
        /\ task[f].confirmed
        /\ task[f].before # NoEntry
        /\ conn[K(f)] # task[f].before

\* C7: for every manifest entry, the object at the derived location exists
\* and its content has the entry's checksum and size.
C7_EntryMatchesRemote ==
    \A f \in Files :
        conn[K(f)] # NoEntry
        => /\ gcsLib[B(f)] # NoFile
           /\ CalculateSha256(gcsLib[B(f)]) = conn[K(f)].checksum
           /\ gcsLib[B(f)].size = conn[K(f)].size

\* C8: when the call for a file ends 'error', the manifest entry of its path
\* is what it was when the call started.
C8_NoMutationOnError ==
    \A f \in Files :
        (task[f].pc = "done" /\ task[f].status = "error")
        => conn[K(f)] = task[f].before

C8_Witness ==
    \E f \in Files :
        /\ task[f].pc = "done"
        /\ task[f].status = "error"
        /\ task[f].stage = "verify"
        /\ task[f].wrote
        /\ task[f].before # NoEntry
        /\ conn[K(f)] = task[f].before
        /\ gcsLib[B(f)] # NoFile
        /\ CalculateSha256(gcsLib[B(f)]) # conn[K(f)].checksum

\* C9: when backup_library_files has returned, every file the producer put
\* was put once, submitted once and aggregated once, and
\* uploaded + skipped + error records = total discovered.
C9_Accounting ==
    main.returned
    => /\ new_files + skipped_files + Len(errors) = total_files
       /\ completed = total_files
       /\ \A f \in Files :
            /\ prod.emitted[f] <= 1
            /\ task[f].submitted = prod.emitted[f]
            /\ task[f].aggregated = prod.emitted[f]

C9_Witness ==
    /\ main.returned
    /\ total_files = 3
    /\ Len(errors) = 1
    /\ new_files = 2
    /\ \A f \in Files : task[f].aggregated = 1

\* C10: a path present in the bucket's manifest.db is still present in it
\* after every later flush.
C10_NoTrackedPathLost ==
    [][\A k \in ManifestPaths :
          (gcsManifest.exists /\ gcsManifest.files[k] # NoEntry)
          => gcsManifest'.files[k] # NoEntry]_vars

\* the run before the last was terminated abruptly with fewer files in the
\* bucket's manifest.db than the tree holds, and the last run reached the
\* end of main
ResumedAfterCrash ==
    /\ main.pc = "exited"
    /\ run >= 2
    /\ Len(hist) = run
    /\ hist[run - 1].ended = "killed"
    /\ Cardinality(Rows(hist[run - 1].flushed)) < Cardinality(Present(Files))
    /\ hist[run].ended = "normal"
\* the last run uploaded only files without a committed entry or whose
\* content differs from the committed entry; every source file has its
\* entry and its library object, and there are no other entries or objects
ResumedExactly ==
    LET was == hist[run - 1].flushed
    IN  /\ \A f \in Files :
            task[f].status = "uploaded"
            => \/ was[K(f)] = NoEntry
               \/ was[K(f)].checksum # CalculateSha256(fs[f])
        /\ \A f \in Files :
            (was[K(f)] # NoEntry /\ was[K(f)].checksum = CalculateSha256(fs[f]))
            => (task[f].status = "skipped" /\ ~task[f].remote)
        /\ Rows(conn) = {K(f) : f \in Present(Files)}
        /\ {b \in BlobNames : gcsLib[b] # NoFile} = {B(f) : f \in Present(Files)}
        /\ Cardinality(BlobNames) = Cardinality(Files)

C12_CheckpointLossBound == pipe.upserted - pipe.covered <= CommitEvery

\* the paths between discovery and completion: held by the producer, in the
\* queue, held by the submit loop, in the futures list
PipeHeld ==
    (IF pipe.prod = "put" THEN 1 ELSE 0) + pipe.file_queue + pipe.cur
        + Len(pipe.futures)

\* C13 (as stated): the paths between discovery and completion never number
\* more than the queue capacity plus the futures ceiling.
C13_BackpressureAsStated == PipeHeld <= queue_size + MAX_PENDING_FUTURES

\* C13 (amended): they never number more than the queue capacity plus the
\* futures ceiling plus two (the path the producer holds while put() blocks
\* and the path the submit loop holds), whatever the size of the tree.
C13_Backpressure == PipeHeld <= queue_size + MAX_PENDING_FUTURES + 2

C13_Witness ==
    /\ pipe.prod = "put"
    /\ pipe.file_queue = queue_size
    /\ pipe.cur = 1
    /\ Len(pipe.futures) = MAX_PENDING_FUTURES
    /\ pipe.total_files < PipeFiles

C14_Step ==
    /\ Len(pipe'.futures) > Len(pipe.futures)
        => /\ Len(pipe.futures) < MAX_PENDING_FUTURES
           /\ pipe.cur = 1
           /\ pipe'.cur = 0
    /\ Len(pipe'.futures) < Len(pipe.futures)
        => /\ \E j \in 1 .. Len(pipe.futures) :
                /\ pipe.futures[j] = "done"
                /\ pipe'.futures = RemoveAt(pipe.futures, j)
           /\ pipe'.completed = pipe.completed + 1
    /\ (pipe.main = "wait" /\ Len(pipe.futures) >= MAX_PENDING_FUTURES)
        => /\ pipe'.cur = 1
           /\ Len(pipe'.futures) <= Len(pipe.futures)

\* C14: the futures list never holds more than MAX_PENDING_FUTURES
\* elements; a path is appended only below the ceiling, and while the loop
\* holds a path at the ceiling its only step is the removal of a completed
\* future.
C14_OutstandingCeiling ==
    [][C14_Step /\ Len(pipe'.futures) <= MAX_PENDING_FUTURES]_vars

C14_Witness ==
    /\ pipe.main = "get"
    /\ pipe.waited >= 1
    /\ pipe.cur = 0
    /\ Len(pipe.futures) = MAX_PENDING_FUTURES
    /\ pipe.futures[MAX_PENDING_FUTURES] = "pending"

\* the summary of the process before the current one
Last == hist[Len(hist)]

C16_GracefulLoad ==
    main.load \notin {"none", "found"}
    => /\ \A f \in Files : task[f].stage # "lookup"
       /\ (\A f \in Files : task[f].status # "uploaded") => conn = EmptyTable

\* the rows of the table for a path
RowsOf(rows, k) == {r \in rows : r.file_path = k}
\* every row an upsert may write
AnyRow ==
    {Row(k, CalculateSha256(c), c.size, a) :
        k \in ManifestPaths, c \in Content, a \in BOOLEAN}

\* C17: after any sequence of upserts the table holds at most one row per
\* path, none for a path never upserted and otherwise the row of the last
\* upsert for it; an upsert applied twice gives what it gives applied once,
\* and leaves the rows of every other path as they were.
C17_Upsert ==
    /\ \A k \in ManifestPaths :
        /\ Cardinality(RowsOf(sqlite.rows, k)) <= 1
        /\ RowsOf(sqlite.rows, k) =
              (IF sqlite.upserts[k] = 0 THEN {} ELSE {sqlite.last[k]})
    /\ \A row \in AnyRow :
        LET once == InsertOrReplace(sqlite.rows, row)
        IN  /\ InsertOrReplace(once, row) = once
            /\ \A k \in ManifestPaths \ {row.file_path} :
                  RowsOf(once, k) = RowsOf(sqlite.rows, k)

C17_Witness ==
    \E k \in ManifestPaths, j \in ManifestPaths :
        /\ k # j
        /\ sqlite.upserts[k] >= 2
        /\ sqlite.upserts[j] = 1
        /\ Cardinality(sqlite.rows) = 2
        /\ sqlite.last[k] \in sqlite.rows
        /\ sqlite.last[k].archived = 1

\* whether an invocation of func returned
Ok(call) == call[1] = "ok"

\* C18: func is invoked at most max_retries times; the call returns the
\* result of the first invocation that returned, which is the last one
\* made; when max_retries invocations have raised, the call raises the
\* exception of the last of them.
C18_RetryBudget ==
    /\ Len(retry.calls) <= retry.max_retries
    /\ \A j \in 1 .. (Len(retry.calls) - 1) : ~Ok(retry.calls[j])
    /\ retry.pc = "loop" => \A j \in 1 .. Len(retry.calls) : ~Ok(retry.calls[j])
    /\ retry.pc = "returned"
        => /\ Ok(retry.calls[Len(retry.calls)])
           /\ retry.outcome = retry.calls[Len(retry.calls)]
    /\ retry.pc = "raised"
        => /\ Len(retry.calls) = retry.max_retries
           /\ ~Ok(retry.calls[retry.max_retries])
           /\ retry.outcome = retry.calls[retry.max_retries]

C18_Witness ==
    /\ retry.pc = "raised"
    /\ retry.max_retries = 3
    /\ retry.outcome = <<"error", 3>>
    /\ Len(retry.sleeps) = 2

RECURSIVE Pow(_, _)
Pow(b, e) == IF e = 0 THEN 1 ELSE b * Pow(b, e - 1)

\* C19: the k-th sleep lasts min(initial_delay * backoff_factor^(k-1),
\* max_delay), hence at most max_delay, and there is one sleep after each
\* failed attempt but the last of the budget.
C19_DelaySchedule ==
    /\ \A k \in 1 .. Len(retry.sleeps) :
        /\ retry.sleeps[k] =
              Min(retry.initial_delay * Pow(retry.backoff_factor, k - 1),
                  retry.max_delay)
        /\ retry.sleeps[k] <= retry.max_delay
    /\ Len(retry.sleeps) =
          Min(Cardinality({j \in 1 .. Len(retry.calls) : ~Ok(retry.calls[j])}),
              retry.max_retries - 1)

\* a call of f under retry_with_backoff failed on every attempt of its budget
Exhausted(f) ==
    task[f].raised /\ task[f].stage \in {"upload", "setclass", "verify"}

\* C20: a file that needs upload and can be read, none of whose remote
\* calls (content write, metadata reload, storage-class change, existence
\* check) failed more than once, ends 'uploaded', and no error is recorded
\* for it.
C20_TransientAbsorbed ==
    \A f \in Files :
        ( /\ task[f].pc = "done"
          /\ NeedsUpload(task[f])
          /\ ~task[f].gone
          /\ task[f].stage # "lookup"
          /\ ~Exhausted(f) )
        => /\ task[f].status = "uploaded"
           /\ \A j \in 1 .. Len(errors) : errors[j] # K(f)

\* C21: a process that reaches the end of main exits 1 when per-file errors
\* were recorded and no new file was uploaded, and 0 otherwise: with no
\* error, or with errors and at least one upload, whatever the results of
\* the database dump and of the final save.
C21_ExitCode ==
    \A i \in 1 .. Len(hist) :
        hist[i].ended = "normal"
            => hist[i].exit =
                  (IF hist[i].nerrors > 0 /\ hist[i].uploaded = 0 THEN 1 ELSE 0)

C21_Witness ==
    /\ Len(hist) = 2
    /\ main.pc = "exited"
    /\ hist[1].ended = "normal" /\ hist[1].exit = 0 /\ hist[1].uploaded = 3
    /\ hist[2].ended = "normal" /\ hist[2].exit = 1 /\ hist[2].nerrors = 1
    /\ ~main.db_success
    /\ main.save_ok

\* the process has started no producer and no task, and, in the first
\* process, the bucket holds no object
NoWorkBegun ==
    /\ prod.pc = "none"
    /\ \A f \in Files : task[f].pc = "none"
    /\ total_files = 0
    /\ run = 1 => /\ \A b \in BlobNames : gcsLib[b] = NoFile
                  /\ ~gcsManifest.exists
                  /\ gcsCopies = 0

\* the first remote calls of the process (load: blob.exists, the download)
\* raised: the store could not be reached at startup
Unreachable == main.load \in {"error", "partial"}

\* C22: a process that lacks a required setting, or that cannot reach the
\* remote store at startup, starts no producer, hashes and uploads no file,
\* writes no remote object, and exits non-zero.
C22_FatalStartup ==
    (~StartupOk \/ Unreachable)
        => /\ NoWorkBegun
           /\ main.pc = "exited" => hist[Len(hist)].exit # 0

\* the dumps that are, among those of objs, the DB_BACKUP_RETENTION most
\* recently created
Newest(objs) == {o \in DbBackups(objs) : Newer(objs, o) < DB_BACKUP_RETENTION}

C24_FlushExclusive ==
    lk.handler = "flush"
        => /\ \A w \in 1 .. UPLOAD_WORKERS : lk.worker[w] \notin WorkerLocked
           /\ lk.main \notin MainLocked

\* C25: once a termination signal has been delivered, the process
\* eventually exits, and the handler's flush is attempted at most
\* ManifestRetries times.
C25_ShutdownCompletes ==
    /\ [](pipe.attempt <= ManifestRetries)
    /\ (pipe.main = "flushing") ~> (pipe.main = "exited")

\* C26: once the signal handler has flushed and raised SystemExit, the
\* tasks that are running in workers or pending in the outstanding
\* collection are abandoned: none of them takes another step (no hash, no
\* upload, no upsert), and the process exits with them unfinished.
C26_NoAwait ==
    [][ main.pc = "sigexit"
            => /\ task' = task
               /\ gcsLib' = gcsLib
               /\ conn' = conn ]_vars

\* 'library/' followed by the path with its leading slash stripped
Stripped(file_path) == <<"library", "/">> \o Tail(file_path)

\* C27: for the manifest path of any file (one leading slash), the object
\* name the backup writes, the name restore reads and the name the
\* verification reads are all 'library/' followed by the path without its
\* leading slash.
C27_OneLocation ==
    loc.file_path # NoName
        => /\ Head(loc.file_path) = "/"
           /\ loc.written = Stripped(loc.file_path)
           /\ loc.restored \in {NoName, Stripped(loc.file_path)}
           /\ loc.verified \in {NoName, Stripped(loc.file_path)}

\* the final save of the i-th process: save() was attempted once, followed
\* by one lightweight save_to_gcs exactly when it raised, and the process
\* went on to its exit code
SavedAtEnd(i) ==
    /\ hist[i].ended = "normal"
    /\ hist[i].saves = 1
    /\ hist[i].fallbacks = (IF hist[i].save_ok THEN 0 ELSE 1)

\* the final save leaves the counters of the run as they were, and the run
\* goes on to its summary whatever the outcome of the save
SaveStep ==
    main.pc = "save" /\ main'.pc # "save"
        => /\ UNCHANGED <<total_files, new_files, skipped_files, errors>>
           /\ main'.pc \in {"exit", "sigexit", "exited"}
           /\ main'.pc = "exit" => main'.saves = 1 /\ main'.fallbacks <= 1

\* C28, as stated: every process that got past startup and was not
\* terminated from outside attempted save() at its end, with one
\* lightweight flush when save() failed; the save changed no counter.
C28_FinalSaveAsStated ==
    /\ [](\A i \in 1 .. Len(hist) :
            (hist[i].load # "none" /\ hist[i].ended \notin {"signal", "killed"})
                => SavedAtEnd(i))
    /\ [][SaveStep]_vars

\* C28 (amended): the same for every process that got past startup, found
\* its library directory and was not terminated from outside; a process
\* whose library directory is missing ends without attempting save().
C28_FinalSave ==
    /\ [](\A i \in 1 .. Len(hist) :
            /\ (hist[i].load # "none"
                    /\ hist[i].ended \notin {"signal", "killed", "sysexit"})
                  => SavedAtEnd(i)
            /\ hist[i].ended = "sysexit" => hist[i].saves = 0)
    /\ [][SaveStep]_vars

\* save() failed and the lightweight save was made, in a process that met
\* two remote faults
C28_Witness ==
    /\ main.pc = "exited"
    /\ hist[Len(hist)].ended = "normal"
    /\ hist[Len(hist)].uploaded = 3
    /\ hist[Len(hist)].exit = 0
    /\ ~main.db_success
    /\ main.saves = 1 /\ main.fallbacks = 1
    /\ env.name = "twice_faulty" /\ env.faults = 0
    /\ gcsCopies = 0

\* a timestamped copy is written only by save() (which raises before any
\* upload on a broken connection), one at a time, and manifest.db then holds
\* the same table
CopyStep ==
    gcsCopies' # gcsCopies
        => /\ main.pc = "save" /\ main'.pc = "exit" /\ ~ConnBroken
           /\ gcsCopies' = gcsCopies + 1
           /\ gcsManifest'.exists /\ gcsManifest'.files = conn

\* C29, as stated: every run that completes writes exactly one timestamped
\* copy, in its final save, after manifest.db was uploaded; no other flush
\* writes one.
C29_CopiesAsStated ==
    [][ /\ CopyStep
        /\ (main.pc = "save" /\ main'.pc = "exit")
              => gcsCopies' = gcsCopies + 1 ]_vars

\* C29 (amended): a run that completes writes at most one timestamped
\* copy, in its final save, after manifest.db was uploaded: exactly one
\* when save() returns, none when the upload of manifest.db fails; no other
\* flush writes one.
C29_Copies ==
    [][ /\ CopyStep
        /\ (main.pc = "save" /\ main'.pc = "exit")
              => /\ gcsCopies' \in {gcsCopies, gcsCopies + 1}
                 /\ main'.save_ok => gcsCopies' = gcsCopies + 1
                 /\ (gcsManifest'.exists => gcsManifest'.files # conn)
                       => gcsCopies' = gcsCopies ]_vars

\* two completed runs, the first with a post-pipeline flush, and two copies
C29_Witness ==
    /\ Len(hist) = 2
    /\ hist[1].ended = "normal" /\ hist[1].uploaded = 3 /\ hist[1].save_ok
    /\ hist[2].ended = "normal" /\ hist[2].save_ok
    /\ gcsCopies = 2

\* C30: the periodic checkpoint is made once each time the count of
\* uploaded files reaches a multiple of N = 50 and at no other time, so a
\* run has made floor(uploaded / 50) checkpoints, whatever the number and
\* order of skipped and error outcomes.
C30_Cadence ==
    /\ agg.commits = agg.new_files \div CommitEvery
    /\ agg.flushes = agg.new_files \div CommitEvery

\* the sentinel is enqueued once, by the producer's last step, and no path
\* is enqueued after it
SentinelStep ==
    /\ (pipe'.sentinel /\ ~pipe.sentinel)
          => pipe.prod # "done" /\ pipe'.prod = "done"
    /\ pipe.prod = "done"
          => pipe'.prod = "done" /\ pipe'.file_queue <= pipe.file_queue

\* the submit loop (lines 509-546) has ended
LoopEnded == pipe.main \notin {"get", "drain", "wait"}

\* C31: the producer enqueues exactly one sentinel, after every path it
\* enqueues, whether the traversal completes or raises; when the submit
\* loop ends every path enqueued has been dequeued and submitted, and the
\* producer is never left blocked on a full queue: it finishes.
C31_EndOfInput ==
    /\ [][SentinelStep]_vars
    /\ [](LoopEnded => pipe.file_queue = 0 /\ pipe.cur = 0)
    /\ <>(pipe.prod = "done")

\* the threads inside a manifest operation
InManifest ==
    {<<"worker", w>> : w \in {v \in 1 .. UPLOAD_WORKERS :
                                 lk.worker[v] \in WorkerLocked}}
        \cup (IF lk.main \in MainLocked THEN {<<"main">>} ELSE {})

\* C32: while the pool runs and no signal is delivered, every thread that
\* is inside a manifest lookup, upsert, commit or checkpoint flush holds
\* manifest_lock, so at most one thread is inside such an operation.
C32_Serialized ==
    lk.handler = "none"
        => /\ \A t \in InManifest : t = lk.manifest_lock
           /\ Cardinality(InManifest) <= 1

\* the main thread flushes a checkpoint while one worker waits for the lock
\* with its upsert and the other computes a checksum
C32_Witness ==
    /\ lk.handler = "none"
    /\ lk.main = "flush"
    /\ lk.manifest_lock = <<"main">>
    /\ lk.worker[1] = "uploading"
    /\ lk.worker[2] = "hashing"

\* backup_library_files has returned: the producer has finished, the queue
\* is empty and every file discovered was submitted, completed and counted
Returned ==
    /\ pipe.main = "returned"
    /\ pipe.prod = "done"
    /\ PipeQueued = 0
    /\ pipe.futures = <<>>
    /\ pipe.completed = pipe.total_files

\* C33: under every configured ceiling and fair scheduling,
\* backup_library_files eventually returns with the producer finished, the
\* queue drained and every submitted task completed and aggregated.
C33_Terminates == <>Returned

\* the call recorded in p skipped on the slow path a file whose size, read
\* at its start and still the same at its end, differs from the recorded one
SlowSkipOfResized(p) ==
    /\ p.outcome = "slow"
    /\ p.before.size # p.file_size
    /\ p.file.size = p.file_size

\* C34: a slow-path skip of a file whose size differs from the recorded
\* size leaves the entry as it was, with its old size; in every later run
\* before which the file was not rewritten, the file is hashed and skipped
\* on the slow path again, and the entry stays the same.
C34_SlowSkipFrame ==
    \A i \in 1 .. Len(rec.paths) :
        SlowSkipOfResized(rec.paths[i])
            => /\ rec.paths[i].after = rec.paths[i].before
               /\ \A j \in (i + 1) .. Len(rec.paths) :
                     rec.paths[j].writes = rec.paths[i].writes
                         => /\ rec.paths[j].outcome = "slow"
                            /\ rec.paths[j].after = rec.paths[i].before

\* the file grew between the stat and the checksum of its upload, then two
\* runs found it unchanged and skipped it on the slow path
C34_Witness ==
    /\ Len(rec.paths) = 3
    /\ rec.paths[1].outcome = "uploaded"
    /\ SlowSkipOfResized(rec.paths[2])
    /\ SlowSkipOfResized(rec.paths[3])
    /\ rec.paths[3].writes = rec.paths[2].writes

\* C35: whenever a termination signal is delivered, the signal handler is
\* never left waiting for a lock that cannot be released (one held by a
\* frame of the main thread that the handler interrupted), whether the main
\* thread is inside a checkpoint with manifest_lock, a worker holds it, or
\* neither.
C35_HandlerNeverBlocked == lk.handler # "waiting"

\* C36: once cleanup has closed the index and removed the local file, the
\* atexit flush leaves manifest.db as it was when cleanup was called: the
\* snapshot of the last successful save or flush, never an empty or a
\* different index.
C36_AtexitHarmless ==
    ex.pc \in {"atexit", "exited"} => ex.remote = ex.at_cleanup

\* the atexit flush has made all its attempts after a run whose final save
\* stored an index of several rows
C36_Witness ==
    /\ ex.pc = "exited"
    /\ ex.attempt = ManifestRetries
    /\ ex.file = Absent
    /\ ex.table > 1
    /\ ex.remote = ex.table

====
